---- MODULE Spec2Model ----
(***************************************************************************)
(* Model of the crssnt feed pipeline (functions/helper.js):                *)
(*   sheet rows / fetched feeds -> canonical items -> sort / limit ->      *)
(*   merge -> identifiers at render time.                                  *)
(*                                                                         *)
(* Encoding of JavaScript values                                           *)
(*   string       a sequence of lexeme codes (naturals):                   *)
(*                  0          the character '.'                           *)
(*                  1 .. 9     an ordinary character                       *)
(*                  32         a space                                     *)
(*                  85         the text "(Untitled)"                       *)
(*                  100 + d    a complete date string denoting instant d   *)
(*                  200 + k    a complete absolute URL "http://x.test/k"   *)
(*                  300 + k    a complete non-http URI "urn:x:k"           *)
(*                  500 + d    a complete absolute URL "http://..." that   *)
(*                             the date parser also accepts, as instant d  *)
(*                  10 .. 19   a digit; 20 '_'; 21 ':'; 22 '-'; 33 '!'     *)
(*                  401 .. 416 a header word of the alias table, in lower  *)
(*                             case (title, link, url, uri, href,          *)
(*                             description, desc, summary, content,        *)
(*                             content:encoded, pubdate, date, published,  *)
(*                             updated, timestamp, created); + 50 the same *)
(*                             word in upper case                          *)
(*                '' and undefined are both the empty sequence (the code   *)
(*                only ever tests these fields for truthiness)             *)
(*   Date         a natural >= 1 (getTime()); null / Invalid Date is 0     *)
(***************************************************************************)
EXTENDS Integers, Sequences, FiniteSets, TLC

(* ----------------------------- bounds ---------------------------------- *)
MaxDate == 2
MaxDescLen == 2
MaxRows == 2
MaxSheets == 2
MaxEntries == 2
MaxAtomEntries == 1
MaxSources == 2
MaxItemLimit == 2
MaxCharLimit == 2
MaxTicks == 2
MaxRenderItems == 1

(* ----------------------------- strings --------------------------------- *)
DotChar == 0
SpaceChar == 32
Ellipsis == <<DotChar, DotChar, DotChar>>
Untitled == <<85>>
EmptyString == <<>>

DateLexeme(d) == 100 + d
UrlLexeme(k) == 200 + k
UrnLexeme(k) == 300 + k
DualLexeme(d) == 500 + d

\* d.slice(0, n)
Slice(s, n) == IF Len(s) > n THEN SubSeq(s, 1, n) ELSE s

\* s.trim() === ''
IsBlank(s) == \A i \in DOMAIN s : s[i] = SpaceChar

RECURSIVE TrimLeft(_)
TrimLeft(s) ==
    IF s # <<>> /\ Head(s) = SpaceChar THEN TrimLeft(Tail(s)) ELSE s

RECURSIVE TrimRight(_)
TrimRight(s) ==
    IF s # <<>> /\ s[Len(s)] = SpaceChar
    THEN TrimRight(SubSeq(s, 1, Len(s) - 1)) ELSE s

\* s.trim()
Trim(s) == TrimRight(TrimLeft(s))

\* link.startsWith('http')
StartsWithHttp(s) == s # <<>> /\ ((s[1] >= 200 /\ s[1] < 300) \/ s[1] > 500)

\* new URL(s) does not throw
IsValidUrl(s) == Len(s) = 1 /\ ((s[1] >= 200 /\ s[1] < 400) \/ s[1] > 500)

RECURSIVE JoinWithSpace(_)
\* cells.join(' ')
JoinWithSpace(cells) ==
    IF cells = <<>> THEN <<>>
    ELSE IF Len(cells) = 1 THEN cells[1]
    ELSE cells[1] \o <<SpaceChar>> \o JoinWithSpace(Tail(cells))

(* ----------------------------- dates ----------------------------------- *)
NullDate == 0

\* parseISO, then new Date(): the instant the string denotes, or null
parseDateString(dateString) ==
    IF Len(dateString) = 1 /\ dateString[1] > 100 /\ dateString[1] < 200
    THEN dateString[1] - 100
    ELSE IF Len(dateString) = 1 /\ dateString[1] > 500
    THEN dateString[1] - 500
    ELSE NullDate

\* x instanceof Date && isValid(x)
IsValidDate(d) == d # NullDate

(* ----------------------------- sorting --------------------------------- *)
\* the comparator, with the sign of newest-first reversed
compareItemsAscending(a, b) ==
    LET dateA == IF IsValidDate(a.dateObject) THEN a.dateObject ELSE NullDate
        dateB == IF IsValidDate(b.dateObject) THEN b.dateObject ELSE NullDate
    IN  IF dateA # NullDate /\ dateB # NullDate THEN dateA - dateB
        ELSE IF dateA # NullDate THEN -1
        ELSE IF dateB # NullDate THEN 1
        ELSE 0

\* the comparator handed to Array.prototype.sort
compareItems(a, b) ==
    LET dateA == IF IsValidDate(a.dateObject) THEN a.dateObject ELSE NullDate
        dateB == IF IsValidDate(b.dateObject) THEN b.dateObject ELSE NullDate
    IN  IF dateA # NullDate /\ dateB # NullDate THEN dateB - dateA
        ELSE IF dateA # NullDate THEN -1
        ELSE IF dateB # NullDate THEN 1
        ELSE 0

\* x goes after every element that does not compare greater than it
RECURSIVE InsertStable(_, _)
InsertStable(sorted, x) ==
    IF sorted = <<>> THEN <<x>>
    ELSE IF compareItems(Head(sorted), x) > 0 THEN <<x>> \o sorted
    ELSE <<Head(sorted)>> \o InsertStable(Tail(sorted), x)

\* x goes before the elements that compare equal to it
RECURSIVE InsertUnstable(_, _)
InsertUnstable(sorted, x) ==
    IF sorted = <<>> THEN <<x>>
    ELSE IF compareItems(Head(sorted), x) >= 0 THEN <<x>> \o sorted
    ELSE <<Head(sorted)>> \o InsertUnstable(Tail(sorted), x)

RECURSIVE SortUnstableFrom(_, _)
SortUnstableFrom(sorted, rest) ==
    IF rest = <<>> THEN sorted
    ELSE SortUnstableFrom(InsertUnstable(sorted, Head(rest)), Tail(rest))

\* a sort that does not keep equal elements in their order
sortFeedItemsUnstable(itemsData) == SortUnstableFrom(<<>>, itemsData)

RECURSIVE SortStableFrom(_, _)
SortStableFrom(sorted, rest) ==
    IF rest = <<>> THEN sorted
    ELSE SortStableFrom(InsertStable(sorted, Head(rest)), Tail(rest))

\* itemsData.sort(comparator): Array.prototype.sort is stable
sortFeedItems(itemsData) == SortStableFrom(<<>>, itemsData)

(* ----------------------------- items ----------------------------------- *)
NoSourceInfo == [title |-> <<>>, url |-> <<>>, type |-> "none"]

Item(title, link, dateObject, descriptionContent, id, customFields, sourceInfo) ==
    [title |-> title, link |-> link, dateObject |-> dateObject,
     descriptionContent |-> descriptionContent, id |-> id,
     customFields |-> customFields, sourceInfo |-> sourceInfo]

(* ----------------------- sheet rows, auto mode ------------------------- *)
\* index of the first cell that is not blank, 0 when there is none
FirstNonBlank(row) ==
    IF \E i \in DOMAIN row : ~IsBlank(row[i])
    THEN CHOOSE i \in DOMAIN row :
            ~IsBlank(row[i]) /\ \A j \in 1..(i - 1) : IsBlank(row[j])
    ELSE 0

\* row.filter((_, index) => index !== titleIndex)
WithoutIndex(row, k) ==
    SubSeq(row, 1, k - 1) \o SubSeq(row, k + 1, Len(row))

RECURSIVE AutoScanDateFirst(_, _, _, _)
\* the loop with the date test ahead of the link test
AutoScanDateFirst(cells, link, dateObject, potentialDescriptionCells) ==
    IF cells = <<>> THEN <<link, dateObject, potentialDescriptionCells>>
    ELSE LET cellString == Head(cells) IN
         IF dateObject = NullDate /\ IsValidDate(parseDateString(cellString))
         THEN AutoScanDateFirst(Tail(cells), link, parseDateString(cellString),
                                potentialDescriptionCells)
         ELSE IF link = <<>> /\ StartsWithHttp(cellString) /\ IsValidUrl(cellString)
         THEN AutoScanDateFirst(Tail(cells), cellString, dateObject,
                                potentialDescriptionCells)
         ELSE AutoScanDateFirst(Tail(cells), link, dateObject,
                                Append(potentialDescriptionCells, cellString))

RECURSIVE AutoScan(_, _, _, _)
\* the loop over remainingRowData; the result is <<link, dateObject, cells>>
AutoScan(cells, link, dateObject, potentialDescriptionCells) ==
    IF cells = <<>> THEN <<link, dateObject, potentialDescriptionCells>>
    ELSE LET cellString == Head(cells) IN
         IF link = <<>> /\ StartsWithHttp(cellString) /\ IsValidUrl(cellString)
         THEN AutoScan(Tail(cells), cellString, dateObject, potentialDescriptionCells)
         ELSE IF dateObject = NullDate /\ IsValidDate(parseDateString(cellString))
         THEN AutoScan(Tail(cells), link, parseDateString(cellString),
                       potentialDescriptionCells)
         ELSE AutoScan(Tail(cells), link, dateObject,
                       Append(potentialDescriptionCells, cellString))

\* the item of a row as a list of zero (null) or one item
parseSheetRowAutoMode(row) ==
    LET titleIndex == FirstNonBlank(row) IN
    IF titleIndex = 0 THEN <<>>
    ELSE LET scanned == AutoScan(WithoutIndex(row, titleIndex), <<>>, NullDate, <<>>)
             kept == SelectSeq(scanned[3], LAMBDA c : ~IsBlank(c))
         IN  <<Item(Trim(row[titleIndex]), scanned[1], scanned[2],
                    JoinWithSpace(kept), <<>>, <<>>, NoSourceInfo)>>

RECURSIVE FlatMap(_, _)
FlatMap(Op(_), s) == IF s = <<>> THEN <<>> ELSE Op(Head(s)) \o FlatMap(Op, Tail(s))

(* ---------------------- sheet rows, manual mode ------------------------ *)
TitleAliases == {401}
LinkAliases == {402, 403, 404, 405}
DescriptionAliases == {406, 407, 408, 409, 410}
DateAliases == {411, 412, 413, 414, 415, 416}
standardFieldAliases ==
    [title |-> TitleAliases, link |-> LinkAliases,
     description |-> DescriptionAliases, dateObject |-> DateAliases]

ToLowerChar(c) == IF c > 450 /\ c < 500 THEN c - 50 ELSE c
\* header.toLowerCase()
ToLower(s) == [i \in DOMAIN s |-> ToLowerChar(s[i])]

\* header.toLowerCase().trim() is one of the aliases of the field
IsAliasOf(header, field) ==
    LET lowerHeader == Trim(ToLower(header))
    IN  Len(lowerHeader) = 1 /\ lowerHeader[1] \in standardFieldAliases[field]

IsStandardHeader(header) ==
    \E f \in DOMAIN standardFieldAliases : IsAliasOf(header, f)

\* headerMap[field]: the first header that is an alias of the field, 0 = undefined
HeaderIndex(headers, field) ==
    IF \E i \in DOMAIN headers : ~IsBlank(headers[i]) /\ IsAliasOf(headers[i], field)
    THEN CHOOSE i \in DOMAIN headers :
            /\ ~IsBlank(headers[i]) /\ IsAliasOf(headers[i], field)
            /\ \A j \in 1..(i - 1) : ~(~IsBlank(headers[j]) /\ IsAliasOf(headers[j], field))
    ELSE 0

\* row[index] || '', also for an index past the end of the row or undefined
CellAt(row, index) == IF index \in DOMAIN row THEN row[index] ELSE <<>>

IsTagChar(c) == c \in (1..22) \/ c > 400
IsTagStartChar(c) == c \in (1..9) \/ c \in {20, 21} \/ c > 400
UnderscoreChar == 20
MinusChar == 22
DigitZero == 10
IsDigit(c) == c >= DigitZero /\ c < DigitZero + 10

\* a sanitization that leaves the first character as it is
SanitizeTagAnyStart(header) ==
    [i \in DOMAIN header |-> IF IsTagChar(header[i]) THEN header[i] ELSE UnderscoreChar]

\* header.replace(/[^a-zA-Z0-9_:-]/g, '_').replace(/^[^a-zA-Z_:]/, '_')
SanitizeTag(header) ==
    LET first == [i \in DOMAIN header |->
                    IF IsTagChar(header[i]) THEN header[i] ELSE UnderscoreChar]
    IN  [i \in DOMAIN first |->
            IF i = 1 /\ ~IsTagStartChar(first[i]) THEN UnderscoreChar ELSE first[i]]

\* obj[key] = value on an object kept as a list of <<key, value>> in insertion order
PutKey(obj, key, value) ==
    IF \E i \in DOMAIN obj : obj[i][1] = key
    THEN [i \in DOMAIN obj |-> IF obj[i][1] = key THEN <<key, value>> ELSE obj[i]]
    ELSE Append(obj, <<key, value>>)

RECURSIVE CustomHeaderMapFrom(_, _, _)
\* customHeaderMap: trimmed header -> index, for the headers that are no alias
CustomHeaderMapFrom(headers, i, acc) ==
    IF i > Len(headers) THEN acc
    ELSE IF IsBlank(headers[i]) \/ IsStandardHeader(headers[i])
    THEN CustomHeaderMapFrom(headers, i + 1, acc)
    ELSE CustomHeaderMapFrom(headers, i + 1, PutKey(acc, Trim(headers[i]), i))

RECURSIVE CustomFieldsFrom(_, _, _)
\* the customFields of one data row
CustomFieldsFrom(customHeaderMap, row, acc) ==
    IF customHeaderMap = <<>> THEN acc
    ELSE LET originalCustomHeader == Head(customHeaderMap)[1]
             customValue == CellAt(row, Head(customHeaderMap)[2])
             tagName == SanitizeTag(originalCustomHeader)
         IN  IF ~IsBlank(customValue) /\ tagName # <<>>
             THEN CustomFieldsFrom(Tail(customHeaderMap), row,
                                   PutKey(acc, tagName, customValue))
             ELSE CustomFieldsFrom(Tail(customHeaderMap), row, acc)

\* a title kept as the cell gives it
TitleAsIs(cellTitle) == cellTitle

\* if (title === '') title = '(Untitled)'
TitleOrPlaceholder(cellTitle) == IF cellTitle = <<>> THEN Untitled ELSE cellTitle

\* the item of one data row as a list of zero (skipped) or one item
ManualRowItem(headers, row) ==
    IF \A i \in DOMAIN row : IsBlank(row[i]) THEN <<>>
    ELSE LET titleIndex == HeaderIndex(headers, "title")
             linkIndex == HeaderIndex(headers, "link")
             descriptionIndex == HeaderIndex(headers, "description")
             dateIndex == HeaderIndex(headers, "dateObject")
             cellTitle == IF titleIndex # 0 THEN Trim(CellAt(row, titleIndex)) ELSE <<>>
             title == TitleOrPlaceholder(cellTitle)
             link == IF linkIndex # 0 THEN Trim(CellAt(row, linkIndex)) ELSE <<>>
             descriptionContent ==
                 IF descriptionIndex # 0 THEN CellAt(row, descriptionIndex) ELSE <<>>
             dateString == IF dateIndex # 0 THEN CellAt(row, dateIndex) ELSE <<>>
             customFields ==
                 CustomFieldsFrom(CustomHeaderMapFrom(headers, 1, <<>>), row, <<>>)
         IN  <<Item(title, link, parseDateString(dateString), descriptionContent,
                    <<>>, customFields, NoSourceInfo)>>

generateFeedManualModeInternal(values) ==
    IF Len(values) < 2 THEN <<>>
    ELSE LET headers == values[1]
             RowItem(row) == ManualRowItem(headers, row)
         IN  FlatMap(RowItem, Tail(values))

\* the items of one sheet in row order, as the adapter of the mode produces them
adaptRows(values, mode) ==
    IF mode = "manual"
    THEN generateFeedManualModeInternal(values)
    ELSE FlatMap(parseSheetRowAutoMode, values)

\* the items of one sheet, sorted
generateItemData(values, mode) == sortFeedItems(adaptRows(values, mode))

(* ----------------------------- limits ---------------------------------- *)
\* a limit that cuts one item too late
applyItemLimitOffByOne(items, itemLimit) ==
    IF Len(items) > itemLimit THEN SubSeq(items, 1, itemLimit + 1) ELSE items

\* a limit that keeps the last items instead of the first
applyItemLimitLast(items, itemLimit) ==
    IF Len(items) > itemLimit
    THEN SubSeq(items, Len(items) - itemLimit + 1, Len(items)) ELSE items

\* items.length > itemLimit ? items.slice(0, itemLimit) : items
applyItemLimit(items, itemLimit) ==
    IF Len(items) > itemLimit THEN SubSeq(items, 1, itemLimit) ELSE items

\* a truncation that keeps the end of the description
truncateItemTail(item, charLimit) ==
    LET desc == item.descriptionContent
    IN  IF Len(desc) > charLimit
        THEN [item EXCEPT !.descriptionContent =
                 SubSeq(desc, Len(desc) - charLimit + 1, Len(desc)) \o Ellipsis]
        ELSE item

\* the body of the map over the items: the description cut to charLimit, then '...'
truncateItem(item, charLimit) ==
    LET desc == item.descriptionContent
    IN  IF Len(desc) > charLimit
        THEN [item EXCEPT !.descriptionContent = Slice(desc, charLimit) \o Ellipsis]
        ELSE item

\* a limit policy that also cuts the title of an item it truncates
applyCharLimitAndTitle(items, charLimit) ==
    [i \in DOMAIN items |->
        [truncateItem(items[i], charLimit) EXCEPT
            !.title = IF Len(items[i].descriptionContent) > charLimit
                      THEN Slice(@, 0) ELSE @]]

applyCharLimit(items, charLimit) ==
    [i \in DOMAIN items |-> truncateItem(items[i], charLimit)]

\* the flag the map sets: some description was longer than charLimit
anyOverCharLimit(items, charLimit) ==
    \E i \in DOMAIN items : Len(items[i].descriptionContent) > charLimit

(* ----------------------------- clock ----------------------------------- *)
VARIABLE now          \* the wall clock, what new Date() reads
VARIABLE rnd          \* a feed handed to the renderers, and what they last returned
VARIABLE adp          \* a row, a sheet or a document handed to an adapter, and its items
VARIABLE req          \* the HTTP request a handler is serving, and its response
VARIABLE conc         \* the calls of two requests that one instance serves at a time

(* --------------------------- buildFeedData ----------------------------- *)
VARIABLE bfd          \* the activation of buildFeedData

SheetFeedId == <<UrnLexeme(1)>>

bfdIdle ==
    [pc |-> "idle", sheetData |-> <<>>, mode |-> "auto", itemLimit |-> 1,
     charLimit |-> 1, isPreview |-> FALSE, sheetIdx |-> 1, allItems |-> <<>>,
     anySheetWasItemLimited |-> FALSE, anySheetWasCharLimited |-> FALSE,
     feedData |-> [metadata |-> [id |-> <<>>, lastBuildDate |-> NullDate,
                                 itemCountLimited |-> FALSE,
                                 itemCharLimited |-> FALSE,
                                 isPreview |-> FALSE, groupByFeed |-> FALSE],
                   items |-> <<>>]]

\* entry of buildFeedData(sheetData, mode, ..., itemLimit, charLimit, isPreview)
bfdEnter(sheetData, mode, itemLimit, charLimit, isPreview) ==
    [bfdIdle EXCEPT !.pc = "sheets", !.sheetData = sheetData, !.mode = mode,
                    !.itemLimit = itemLimit, !.charLimit = charLimit,
                    !.isPreview = isPreview]

\* a round whose flags tell of the last sheet only
bfdSheetLastFlag(f) ==
    LET itemsFromSheet == generateItemData(f.sheetData[f.sheetIdx], f.mode)
        limited == applyItemLimit(itemsFromSheet, f.itemLimit)
    IN  [f EXCEPT
           !.anySheetWasItemLimited = Len(itemsFromSheet) > f.itemLimit,
           !.anySheetWasCharLimited = anyOverCharLimit(limited, f.charLimit),
           !.allItems = @ \o applyCharLimit(limited, f.charLimit),
           !.sheetIdx = @ + 1]

\* one round of Object.keys(sheetData).forEach
bfdSheet(f) ==
    LET itemsFromSheet == generateItemData(f.sheetData[f.sheetIdx], f.mode)
        limited == applyItemLimit(itemsFromSheet, f.itemLimit)
    IN  [f EXCEPT
           !.anySheetWasItemLimited = @ \/ Len(itemsFromSheet) > f.itemLimit,
           !.anySheetWasCharLimited = @ \/ anyOverCharLimit(limited, f.charLimit),
           !.allItems = @ \o applyCharLimit(limited, f.charLimit),
           !.sheetIdx = @ + 1]

\* after the loop: the global sort, the metadata, the return
bfdReturn(f, clock) ==
    LET allItems == sortFeedItems(f.allItems)
        latestItemDate ==
            IF allItems # <<>> /\ IsValidDate(allItems[1].dateObject)
            THEN allItems[1].dateObject ELSE clock
    IN  [f EXCEPT
           !.pc = "done", !.allItems = allItems,
           !.feedData = [metadata |-> [id |-> SheetFeedId,
                                       lastBuildDate |-> latestItemDate,
                                       itemCountLimited |-> f.anySheetWasItemLimited,
                                       itemCharLimited |-> f.anySheetWasCharLimited,
                                       isPreview |-> f.isPreview,
                                       groupByFeed |-> FALSE],
                         items |-> allItems]]

(* inputs of the sheet endpoint *)
Dates == 0..MaxDate
DescLens == (MaxDescLen - 1)..MaxDescLen
ItemLimits == 1..MaxItemLimit
CharLimits == 1..MaxCharLimit
Modes == {"auto", "manual"}

TitleCell == <<1>>
DateCell(d) == IF d = NullDate THEN <<>> ELSE <<DateLexeme(d)>>
\* a description of k characters: the characters 1, 2, .., k
DescCell(k) == [i \in 1..k |-> i]

\* an auto-mode row: the title, then a date cell and a description cell when it has them
AutoRow(d, k) ==
    <<TitleCell>> \o (IF d = NullDate THEN <<>> ELSE <<DateCell(d)>>)
                  \o (IF k = 0 THEN <<>> ELSE <<DescCell(k)>>)
\* a manual-mode row under the header title, date, description
ManualRow(d, k) == <<TitleCell, DateCell(d), DescCell(k)>>
ManualHeader == <<<<401>>, <<412>>, <<406>>>>

RowSpecs == Dates \X DescLens
SheetSpecs == UNION {[1..n -> RowSpecs] : n \in 0..MaxRows}
SheetDataSpecs == UNION {[1..n -> SheetSpecs] : n \in 1..MaxSheets}

\* the rows of a sheet in the given mode
SheetRows(spec, mode) ==
    LET Row(r) == IF mode = "manual" THEN ManualRow(r[1], r[2])
                  ELSE AutoRow(r[1], r[2])
        rows == [i \in DOMAIN spec |-> Row(spec[i])]
    IN  IF mode = "manual" THEN <<ManualHeader>> \o rows ELSE rows

SheetDataOf(spec, mode) == [i \in DOMAIN spec |-> SheetRows(spec[i], mode)]

(* ------------------------ normalizeParsedFeed -------------------------- *)
\* a || b on strings
Or(a, b) == IF a # <<>> THEN a ELSE b

CdataOpen == 40
CdataClose == 41
_stripCdataWrapper(str) ==
    IF Len(str) >= 2 /\ str[1] = CdataOpen /\ str[Len(str)] = CdataClose
    THEN SubSeq(str, 2, Len(str) - 1) ELSE str

\* the item pushed for one <item> of an RSS channel
RssItemOf(el, feedTitle, sourceUrl) ==
    LET title == Or(Trim(el.title), Untitled)
        link == Or(Trim(el.link),
                   IF el.guidIsPermaLink THEN Trim(el.guid) ELSE <<>>)
        rawDescription == Or(el.description, el.contentEncoded)
        guid == Or(Trim(el.guid), link)
    IN  Item(title, link, parseDateString(Trim(el.pubDate)),
             _stripCdataWrapper(rawDescription), guid, <<>>,
             [title |-> feedTitle, url |-> sourceUrl, type |-> "rss"])

\* the item pushed for one <entry> of an Atom feed
AtomItemOf(el, feedTitle, sourceUrl) ==
    LET title == Or(Trim(el.title), Untitled)
        link == Or(el.linkAlternate, el.linkFirst)
        rawDescription == Or(el.content, el.summary)
        updatedStrEntry == Or(Trim(el.updated), Trim(el.published))
        id == Or(Trim(el.id), link)
    IN  Item(title, link, parseDateString(updatedStrEntry),
             _stripCdataWrapper(rawDescription), id, <<>>,
             [title |-> feedTitle, url |-> sourceUrl, type |-> "atom"])

\* the items of the document in document order, before the sort
ParsedItems(doc, sourceUrl) ==
    IF doc.root = "rss"
    THEN [i \in DOMAIN doc.items |-> RssItemOf(doc.items[i], Trim(doc.title), sourceUrl)]
    ELSE IF doc.root = "feed"
    THEN [i \in DOMAIN doc.items |-> AtomItemOf(doc.items[i], Trim(doc.title), sourceUrl)]
    ELSE <<>>

UntitledParsedFeed == <<86>>
UnknownFeedTitle == <<87>>

\* normalizeParsedFeed($, sourceUrl, itemLimit, charLimit); clock is unused by it
normalizeParsedFeed(doc, sourceUrl, itemLimit, charLimit) ==
    LET isRss == doc.root = "rss"
        isAtom == ~isRss /\ doc.root = "feed"
        sourceType == IF isRss THEN "rss" ELSE IF isAtom THEN "atom" ELSE "unknown"
        feedTitle == IF isRss \/ isAtom THEN Trim(doc.title) ELSE UnknownFeedTitle
        feedLink == IF isRss \/ isAtom THEN doc.link ELSE <<>>
        declaredBuildDate ==
            IF (isRss \/ isAtom) /\ Trim(doc.lastBuildDate) # <<>>
            THEN parseDateString(Trim(doc.lastBuildDate)) ELSE NullDate
        feedId == IF isRss THEN Or(doc.selfId, Or(feedLink, sourceUrl))
                  ELSE IF isAtom THEN Or(Trim(doc.selfId), sourceUrl)
                  ELSE sourceUrl
        items == sortFeedItems(ParsedItems(doc, sourceUrl))
        itemCountLimited == Len(items) > itemLimit
        cut == applyItemLimit(items, itemLimit)
        itemCharLimited == anyOverCharLimit(cut, charLimit)
        limitedItems == applyCharLimit(cut, charLimit)
        feedLastBuildDate ==
            IF declaredBuildDate = NullDate /\ limitedItems # <<>>
               /\ limitedItems[1].dateObject # NullDate
            THEN limitedItems[1].dateObject ELSE declaredBuildDate
    IN  [metadata |-> [title |-> Or(feedTitle, UntitledParsedFeed),
                       link |-> Or(feedLink, sourceUrl),
                       feedUrl |-> sourceUrl,
                       lastBuildDate |-> feedLastBuildDate,
                       id |-> feedId,
                       itemCountLimited |-> itemCountLimited,
                       itemCharLimited |-> itemCharLimited,
                       sourceType |-> sourceType],
         items |-> limitedItems]

(* ------------------------ processMultipleUrls -------------------------- *)
VARIABLE pmu          \* the activation of processMultipleUrls

CombinedFeedId == <<UrnLexeme(2)>>

pmuIdle ==
    [pc |-> "idle", sourceUrls |-> <<>>, net |-> <<>>, itemLimit |-> 1,
     charLimit |-> 1, groupByFeed |-> FALSE, urlIdx |-> 1, allItems |-> <<>>,
     allFeedMetadata |-> <<>>, fetched |-> <<>>,
     anyIndividualFeedWasItemLimited |-> FALSE,
     anyIndividualFeedWasCharLimited |-> FALSE,
     feedData |-> [metadata |-> [id |-> <<>>, lastBuildDate |-> NullDate,
                                 itemCountLimited |-> FALSE,
                                 itemCharLimited |-> FALSE,
                                 isPreview |-> FALSE, groupByFeed |-> FALSE],
                   items |-> <<>>]]

\* entry of processMultipleUrls(sourceUrls, requestUrl, itemLimit, charLimit, groupByFeed);
\* net[i] is what the network will answer to the fetch of sourceUrls[i]
pmuEnter(sourceUrls, net, itemLimit, charLimit, groupByFeed) ==
    [pmuIdle EXCEPT !.pc = "loop", !.sourceUrls = sourceUrls, !.net = net,
                    !.itemLimit = itemLimit, !.charLimit = charLimit,
                    !.groupByFeed = groupByFeed]

\* const xmlString = await fetchUrlContent(sourceUrl): the loop suspends
\* fetched lists the URLs handed to fetch() so far
pmuFetch(f) ==
    [f EXCEPT !.pc = "awaiting", !.fetched = Append(@, f.sourceUrls[f.urlIdx])]

\* a merge that also keeps the placeholder metadata of an unrecognized document
pmuResolveKeepsUnknown(f) ==
    LET individualFeedData ==
            normalizeParsedFeed(f.net[f.urlIdx].doc, f.sourceUrls[f.urlIdx],
                                f.itemLimit, f.charLimit)
    IN  [f EXCEPT
           !.pc = "loop", !.urlIdx = @ + 1,
           !.allItems = @ \o individualFeedData.items,
           !.allFeedMetadata = Append(@, individualFeedData.metadata),
           !.anyIndividualFeedWasItemLimited =
               @ \/ individualFeedData.metadata.itemCountLimited,
           !.anyIndividualFeedWasCharLimited =
               @ \/ individualFeedData.metadata.itemCharLimited]

\* the fetch resolved: parse, normalize, merge; then the next round of the loop
pmuResolve(f) ==
    LET individualFeedData ==
            normalizeParsedFeed(f.net[f.urlIdx].doc, f.sourceUrls[f.urlIdx],
                                f.itemLimit, f.charLimit)
    IN  IF individualFeedData.metadata.sourceType # "unknown"
        THEN [f EXCEPT
                !.pc = "loop", !.urlIdx = @ + 1,
                !.allItems = @ \o individualFeedData.items,
                !.allFeedMetadata = Append(@, individualFeedData.metadata),
                !.anyIndividualFeedWasItemLimited =
                    @ \/ individualFeedData.metadata.itemCountLimited,
                !.anyIndividualFeedWasCharLimited =
                    @ \/ individualFeedData.metadata.itemCharLimited]
        ELSE [f EXCEPT !.pc = "loop", !.urlIdx = @ + 1]

\* a catch block that also drops what the earlier sources gave
pmuRejectLosesItems(f) ==
    [f EXCEPT !.pc = "loop", !.urlIdx = @ + 1, !.allItems = <<>>]

\* a catch block that goes round the loop again for the same source
pmuRejectRetry(f) == [f EXCEPT !.pc = "loop"]

\* the fetch rejected (or the response was not ok): the catch block skips the source
pmuReject(f) == [f EXCEPT !.pc = "loop", !.urlIdx = @ + 1]

\* a throw as soon as one source was dropped
pmuThrowsOnAnyFailure(f) == Len(f.allFeedMetadata) < Len(f.sourceUrls)

\* if (allItems.length === 0) throw
pmuThrows(f) == f.allItems = <<>>

RECURSIVE LatestBuildDate(_, _)
\* allFeedMetadata.reduce(...): the newest lastBuildDate of the sources
LatestBuildDate(metas, latest) ==
    IF metas = <<>> THEN latest
    ELSE LatestBuildDate(Tail(metas),
            IF Head(metas).lastBuildDate # NullDate
               /\ (latest = NullDate \/ Head(metas).lastBuildDate > latest)
            THEN Head(metas).lastBuildDate ELSE latest)

RECURSIVE LatestItemDate(_, _)
LatestItemDate(items, latest) ==
    IF items = <<>> THEN latest
    ELSE LatestItemDate(Tail(items),
            IF IsValidDate(Head(items).dateObject)
               /\ (latest = NullDate \/ Head(items).dateObject > latest)
            THEN Head(items).dateObject ELSE latest)

\* a merge that sorts also when grouping was requested
finalItemsAlwaysSorted(f) == sortFeedItems(f.allItems)

\* if (!groupByFeed) sortFeedItems(allItems); finalLimitedItems = allItems
\* a global sort that returns the dated items only
finalItemsDatedOnly(f) ==
    IF ~f.groupByFeed
    THEN SelectSeq(sortFeedItems(f.allItems), LAMBDA it : it.dateObject # NullDate)
    ELSE f.allItems

finalItems(f) == IF ~f.groupByFeed THEN sortFeedItems(f.allItems) ELSE f.allItems

\* a return whose grouping flag counts the sources that were merged
pmuReturnCountsMerged(f, clock) ==
    LET finalLimitedItems == finalItems(f)
        fromSources ==
            IF ~f.groupByFeed /\ finalLimitedItems # <<>>
               /\ IsValidDate(finalLimitedItems[1].dateObject)
            THEN finalLimitedItems[1].dateObject
            ELSE IF f.groupByFeed /\ f.allFeedMetadata # <<>>
            THEN LET latestMeta == LatestBuildDate(f.allFeedMetadata, NullDate)
                 IN  IF latestMeta = NullDate /\ finalLimitedItems # <<>>
                     THEN LatestItemDate(finalLimitedItems, NullDate)
                     ELSE latestMeta
            ELSE NullDate
        overallLastBuildDate == IF fromSources # NullDate THEN fromSources ELSE clock
    IN  [f EXCEPT
           !.pc = "returned", !.allItems = finalLimitedItems,
           !.feedData = [metadata |-> [id |-> CombinedFeedId,
                                       lastBuildDate |-> overallLastBuildDate,
                                       itemCountLimited |-> f.anyIndividualFeedWasItemLimited,
                                       itemCharLimited |-> f.anyIndividualFeedWasCharLimited,
                                       isPreview |-> FALSE,
                                       groupByFeed |-> f.groupByFeed /\ Len(f.allFeedMetadata) > 1],
                         items |-> finalLimitedItems]]

\* after the loop, when something was merged: the sort unless grouping, the metadata
pmuReturn(f, clock) ==
    LET finalLimitedItems == finalItems(f)
        fromSources ==
            IF ~f.groupByFeed /\ finalLimitedItems # <<>>
               /\ IsValidDate(finalLimitedItems[1].dateObject)
            THEN finalLimitedItems[1].dateObject
            ELSE IF f.groupByFeed /\ f.allFeedMetadata # <<>>
            THEN LET latestMeta == LatestBuildDate(f.allFeedMetadata, NullDate)
                 IN  IF latestMeta = NullDate /\ finalLimitedItems # <<>>
                     THEN LatestItemDate(finalLimitedItems, NullDate)
                     ELSE latestMeta
            ELSE NullDate
        overallLastBuildDate == IF fromSources # NullDate THEN fromSources ELSE clock
    IN  [f EXCEPT
           !.pc = "returned", !.allItems = finalLimitedItems,
           !.feedData = [metadata |-> [id |-> CombinedFeedId,
                                       lastBuildDate |-> overallLastBuildDate,
                                       itemCountLimited |-> f.anyIndividualFeedWasItemLimited,
                                       itemCharLimited |-> f.anyIndividualFeedWasCharLimited,
                                       isPreview |-> FALSE,
                                       groupByFeed |-> f.groupByFeed /\ Len(f.sourceUrls) > 1],
                         items |-> finalLimitedItems]]

(* inputs of the feed endpoint *)
RssEntry(d, k) ==
    [title |-> TitleCell, link |-> <<>>, guid |-> <<>>, guidIsPermaLink |-> FALSE,
     description |-> DescCell(k), contentEncoded |-> <<>>, pubDate |-> DateCell(d)]
AtomEntry(d, k) ==
    [title |-> TitleCell, linkAlternate |-> <<>>, linkFirst |-> <<>>,
     content |-> DescCell(k), summary |-> <<>>, updated |-> DateCell(d),
     published |-> <<>>, id |-> <<>>]
FeedTitle == <<2>>

\* the document of a source: the root element and the (date, description length) of its entries
DocOf(root, entries) ==
    [root |-> root, title |-> FeedTitle, link |-> <<>>, lastBuildDate |-> <<>>,
     selfId |-> <<>>,
     items |-> [i \in DOMAIN entries |->
                  IF root = "feed" THEN AtomEntry(entries[i][1], entries[i][2])
                  ELSE RssEntry(entries[i][1], entries[i][2])]]

EntrySpecs == Dates \X DescLens
EntryListSpecs == UNION {[1..n -> EntrySpecs] : n \in 0..MaxEntries}
AtomEntryListSpecs == UNION {[1..n -> EntrySpecs] : n \in 0..MaxAtomEntries}
\* what the network answers: a failure, nothing at all, or a document
NetSpecs ==
    {<<"fail", "other", <<>>>>, <<"hang", "other", <<>>>>, <<"ok", "other", <<>>>>,
     <<"ok", "other", <<<<1, MaxDescLen>>>>>>}
    \cup {<<"ok", "rss", e>> : e \in EntryListSpecs}
    \cup {<<"ok", "feed", e>> : e \in AtomEntryListSpecs}
RequestSpecs == UNION {[1..n -> NetSpecs] : n \in 1..MaxSources}

NetOf(spec) ==
    [i \in DOMAIN spec |->
        [outcome |-> spec[i][1], doc |-> DocOf(spec[i][2], spec[i][3])]]
SourceUrlsOf(spec) == [i \in DOMAIN spec |-> <<UrlLexeme(i)>>]

\* url=...&url=...: the list is taken as the caller wrote it, repeats included
RepeatSpecs ==
    {<<"fail", "other", <<>>>>, <<"ok", "other", <<>>>>,
     <<"ok", "rss", <<<<1, MaxDescLen>>>>>>, <<"ok", "rss", <<>>>>,
     <<"ok", "rss", <<<<NullDate, MaxDescLen>>>>>>,
     <<"ok", "feed", <<<<2, MaxDescLen>>>>>>}
\* the <lastBuildDate> / <updated> the feeds declare: none, or an instant
DeclaredBuildDates == {<<>>, <<DateLexeme(1)>>}
WithBuildDate(net, declared) ==
    [i \in DOMAIN net |-> [net[i] EXCEPT !.doc.lastBuildDate = declared]]
RepeatRequestSpecs == UNION {[1..n -> RepeatSpecs] : n \in 1..(MaxSources + 1)}

\* a call whose list may name one URL more than once
ProcessMultipleUrlsCallRepeated ==
    /\ pmu.pc = "idle" /\ bfd.pc = "idle"
    /\ \E spec \in RepeatRequestSpecs, groupByFeed \in BOOLEAN :
          \E urls \in [DOMAIN spec -> {<<UrlLexeme(1)>>, <<UrlLexeme(2)>>}],
             declared \in DeclaredBuildDates :
              pmu' = pmuEnter(urls, WithBuildDate(NetOf(spec), declared),
                              MaxItemLimit, MaxCharLimit, groupByFeed)
    /\ UNCHANGED <<now, bfd, rnd, adp, req, conc>>

ProcessMultipleUrlsCall ==
    /\ pmu.pc = "idle" /\ bfd.pc = "idle"
    /\ \E spec \in RequestSpecs, itemLimit \in ItemLimits,
          charLimit \in CharLimits, groupByFeed \in BOOLEAN :
          pmu' = pmuEnter(SourceUrlsOf(spec), NetOf(spec), itemLimit, charLimit,
                          groupByFeed)
    /\ UNCHANGED <<now, bfd, rnd, adp, req, conc>>

FetchUrlContent ==
    /\ pmu.pc = "loop"
    /\ pmu.urlIdx <= Len(pmu.sourceUrls)
    /\ pmu' = pmuFetch(pmu)
    /\ UNCHANGED <<now, bfd, rnd, adp, req, conc>>

FetchResolved ==
    /\ pmu.pc = "awaiting"
    /\ pmu.net[pmu.urlIdx].outcome = "ok"
    /\ pmu' = pmuResolve(pmu)
    /\ UNCHANGED <<now, bfd, rnd, adp, req, conc>>

FetchRejected ==
    /\ pmu.pc = "awaiting"
    /\ pmu.net[pmu.urlIdx].outcome = "fail"
    /\ pmu' = pmuReject(pmu)
    /\ UNCHANGED <<now, bfd, rnd, adp, req, conc>>

ProcessMultipleUrlsThrow ==
    /\ pmu.pc = "loop"
    /\ pmu.urlIdx > Len(pmu.sourceUrls)
    /\ pmuThrows(pmu)
    /\ pmu' = [pmu EXCEPT !.pc = "threw"]
    /\ UNCHANGED <<now, bfd, rnd, adp, req, conc>>

ProcessMultipleUrlsReturn ==
    /\ pmu.pc = "loop"
    /\ pmu.urlIdx > Len(pmu.sourceUrls)
    /\ ~pmuThrows(pmu)
    /\ pmu' = pmuReturn(pmu, now)
    /\ UNCHANGED <<now, bfd, rnd, adp, req, conc>>

(* ----------------------------- renderers ------------------------------- *)

ColonChar == 21
HashTag == 50
NoDateText == <<88>>
UntitledEntry == <<89>>
TempFeedId == <<UrnLexeme(9)>>
FeedWord == <<90>>
UrnUuidPrefix == <<91>>

\* crypto.createHash('sha1').update(s).digest('hex'): the digest of s, taken to be
\* free of collisions
Sha1(s) == <<HashTag>> \o s

\* formatISO(date): the text that denotes the instant
formatISO(d) == <<DateLexeme(d)>>

\* format(date, "EEE, dd MMM yyyy HH:mm:ss 'GMT'"): the same instant, spelled the RSS way
formatGmt(d) == <<150 + d>>

\* the <guid> of generateRssItemXml
RssGuid(itemData) ==
    IF itemData.id # <<>> THEN itemData.id
    ELSE IF itemData.link # <<>> THEN itemData.link
    ELSE Sha1(itemData.title \o <<ColonChar, ColonChar>> \o itemData.descriptionContent)

\* the <pubDate> of generateRssItemXml, '' when the element is left out
RssPubDate(itemData) ==
    IF IsValidDate(itemData.dateObject) THEN formatGmt(itemData.dateObject) ELSE <<>>

\* an <updated> that is always the time of rendering
AtomUpdatedAlwaysNow(itemData, clock) == formatISO(clock)

\* the <updated> of generateAtomEntryXml
AtomUpdated(itemData, clock) ==
    IF IsValidDate(itemData.dateObject)
    THEN formatISO(itemData.dateObject) ELSE formatISO(clock)

\* the <id> of generateAtomEntryXml
AtomEntryId(itemData, feedMetadata, clock) ==
    LET title == Or(itemData.title, UntitledEntry)
        description == itemData.descriptionContent
        link == itemData.link
        updatedString == AtomUpdated(itemData, clock)
    IN  IF itemData.id # <<>> THEN itemData.id
        ELSE IF link # <<>> /\ StartsWithHttp(link) THEN link
        ELSE LET baseId == Or(feedMetadata.id,
                              Or(feedMetadata.link,
                                 UrnUuidPrefix \o Sha1(Or(feedMetadata.title, FeedWord))))
                 stringToHash == title \o <<ColonChar, ColonChar>> \o description
                                       \o <<ColonChar, ColonChar>> \o updatedString
             IN  baseId \o <<ColonChar>> \o Sha1(stringToHash)

\* the date_published of mapItemToJson, '' when the key is pruned
JsonDatePublished(item) ==
    IF IsValidDate(item.dateObject) THEN formatISO(item.dateObject) ELSE <<>>

\* the itemId of mapItemToJson
JsonItemId(item, metadata) ==
    IF item.id # <<>> THEN item.id
    ELSE IF item.link # <<>> /\ StartsWithHttp(item.link) THEN item.link
    ELSE LET stringToHash ==
                 item.title \o <<ColonChar, ColonChar>> \o item.descriptionContent
                            \o <<ColonChar, ColonChar>>
                            \o (IF IsValidDate(item.dateObject)
                                THEN formatISO(item.dateObject) ELSE NoDateText)
         IN  Or(metadata.id, TempFeedId) \o <<ColonChar>> \o Sha1(stringToHash)

\* format(date, 'PPPppp'): the same instant, spelled out for Markdown
formatLong(d) == <<170 + d>>

\* the date renderMarkdownItem and the compact style print, '' when they print none
MarkdownDate(item, isLlmCompact) ==
    IF IsValidDate(item.dateObject)
    THEN (IF isLlmCompact THEN formatISO(item.dateObject)
          ELSE formatLong(item.dateObject))
    ELSE <<>>

\* null or undefined where an item is expected
NullItem ==
    Item(<<>>, <<>>, NullDate, <<>>, <<>>, <<>>,
         [title |-> <<>>, url |-> <<>>, type |-> "null"])
IsNullItem(item) == item.sourceInfo.type = "null"

\* !feedData || !feedData.metadata || !Array.isArray(feedData.items)
IsInvalidFeedData(feedData) == feedData.shape # "object"

\* what a renderer gives back: the error document of its format for invalid feed
\* data, a TypeError when the map reads a field of an entry that is null, or the
\* document with the given entries
RenderGuarded(feedData, entries) ==
    IF IsInvalidFeedData(feedData) THEN [status |-> "error", entries |-> <<>>]
    ELSE IF \E i \in DOMAIN feedData.items : IsNullItem(feedData.items[i])
    THEN [status |-> "threw", entries |-> <<>>]
    ELSE [status |-> "ok", entries |-> entries]

\* the source key of the grouped styles: item.sourceInfo ? item.sourceInfo.url : 'unknown_source'
SourceKey(item) == item.sourceInfo.url

\* the items in the order the grouped styles print them: group by group, the
\* groups in the order of their first item
GroupBySource(items) ==
    LET firsts == SelectSeq([i \in DOMAIN items |-> i],
                            LAMBDA i : \A j \in 1..(i - 1) :
                                          SourceKey(items[j]) # SourceKey(items[i]))
        Group(g) == SelectSeq(items, LAMBDA it : SourceKey(it) = SourceKey(items[firsts[g]]))
        RECURSIVE Upto(_)
        Upto(n) == IF n = 0 THEN <<>> ELSE Upto(n - 1) \o Group(n)
    IN  Upto(Len(firsts))

\* the entries of the document generateRssFeed returns
generateRssFeed(feedData) ==
    RenderGuarded(feedData,
        [i \in DOMAIN feedData.items |->
            [id |-> RssGuid(feedData.items[i]),
             date |-> RssPubDate(feedData.items[i])]])

\* the entries of the document generateAtomFeed returns
generateAtomFeed(feedData, clock) ==
    RenderGuarded(feedData,
        [i \in DOMAIN feedData.items |->
            [id |-> AtomEntryId(feedData.items[i], feedData.metadata, clock),
             date |-> AtomUpdated(feedData.items[i], clock)]])

\* the items of the object generateJsonFeedObject returns
generateJsonFeedObject(feedData, isLlmCompact) ==
    RenderGuarded(feedData,
        [i \in DOMAIN feedData.items |->
            [id |-> IF isLlmCompact THEN <<>>
                    ELSE JsonItemId(feedData.items[i], feedData.metadata),
             date |-> JsonDatePublished(feedData.items[i])]])

\* the items generateMarkdown prints, in the order it prints them
generateMarkdown(feedData, isLlmCompact) ==
    LET printed == IF feedData.metadata.groupByFeed
                   THEN GroupBySource(feedData.items) ELSE feedData.items
    IN  RenderGuarded(feedData,
            [i \in DOMAIN printed |->
                [id |-> <<>>, date |-> MarkdownDate(printed[i], isLlmCompact)]])

\* a renderer that fills in the identifier it resolved
inputWithIdsFilled(feedData) ==
    [feedData EXCEPT
       !.items = [i \in DOMAIN @ |-> [@[i] EXCEPT !.id = Or(@, feedData.items[i].link)]]]

\* the feed data after a renderer ran: none of them assigns to the feed data, to
\* its metadata, to its item list or to an item
inputAfterRender(feedData) == feedData

Formats == {"rss", "atom", "json", "markdown"}

rndIdle ==
    [feedData |-> [shape |-> "object",
                   metadata |-> [id |-> <<>>, link |-> <<>>, title |-> <<>>,
                                 groupByFeed |-> FALSE],
                   items |-> <<>>],
     rendered |-> {}, compact |-> FALSE, mdCompact |-> FALSE,
     status |-> [fmt \in Formats |-> "none"],
     out |-> [fmt \in Formats |-> <<>>]]

(* inputs of the renderers *)
RenderLinks == {<<>>, <<UrlLexeme(1)>>, <<UrnLexeme(5)>>}
RenderIds == {<<>>, <<UrnLexeme(6)>>}
RenderItems ==
    {Item(TitleCell, link, d, DescCell(1), id, <<>>, NoSourceInfo) :
        link \in RenderLinks, d \in Dates, id \in RenderIds}
    \cup {NullItem}
RenderItemLists == UNION {[1..n -> RenderItems] : n \in 0..MaxRenderItems}
RenderFeedIds == {<<>>, SheetFeedId}
RenderShapes == {"null", "noMetadata", "itemsNotArray"}
RenderFeeds ==
    {[shape |-> "object",
      metadata |-> [id |-> fid, link |-> <<>>, title |-> FeedTitle, groupByFeed |-> g],
      items |-> its] :
        fid \in RenderFeedIds, g \in BOOLEAN, its \in RenderItemLists}
    \cup {[rndIdle.feedData EXCEPT !.shape = sh] : sh \in RenderShapes}

ClockStart == MaxDate + 1

\* time passes
Tick ==
    /\ now < ClockStart + MaxTicks
    /\ now' = now + 1
    /\ UNCHANGED <<bfd, pmu, rnd, adp, req, conc>>

\* one call of a renderer on the feed data, and what it left of them
Rendered(fmt, result) ==
    [rnd EXCEPT !.rendered = @ \cup {fmt},
                !.status[fmt] = result.status,
                !.out[fmt] = result.entries,
                !.feedData = inputAfterRender(@)]

GenerateRssFeed ==
    /\ rnd' = Rendered("rss", generateRssFeed(rnd.feedData))
    /\ UNCHANGED <<now, bfd, pmu, adp, req, conc>>

GenerateAtomFeed ==
    /\ rnd' = Rendered("atom", generateAtomFeed(rnd.feedData, now))
    /\ UNCHANGED <<now, bfd, pmu, adp, req, conc>>

GenerateJsonFeedObject ==
    /\ \E isLlmCompact \in BOOLEAN :
          rnd' = [Rendered("json", generateJsonFeedObject(rnd.feedData, isLlmCompact))
                    EXCEPT !.compact = isLlmCompact]
    /\ UNCHANGED <<now, bfd, pmu, adp, req, conc>>

GenerateMarkdown ==
    /\ \E isLlmCompact \in BOOLEAN :
          rnd' = [Rendered("markdown", generateMarkdown(rnd.feedData, isLlmCompact))
                    EXCEPT !.mdCompact = isLlmCompact]
    /\ UNCHANGED <<now, bfd, pmu, adp, req, conc>>

(* ----------------------------- adapters ------------------------------- *)
MaxCells == 3

\* itemLimit = Infinity, charLimit = Infinity: the defaults of normalizeParsedFeed
Infinity == 1000

adpIdle ==
    [kind |-> "none", done |-> FALSE, row |-> <<>>, values |-> <<>>,
     doc |-> DocOf("other", <<>>), out |-> <<>>,
     mode |-> "auto", absent |-> FALSE, status |-> "none",
     metadata |-> bfdIdle.feedData.metadata]

(* inputs of the adapters *)
PaddedTitleCell == <<SpaceChar, 1, SpaceChar>>
BlankCell == <<SpaceChar>>
AutoCells ==
    {<<>>, BlankCell, TitleCell, PaddedTitleCell, <<UrlLexeme(1)>>,
     <<UrlLexeme(2)>>, <<DateLexeme(1)>>, <<DualLexeme(2)>>}
AutoRows == UNION {[1..n -> AutoCells] : n \in 0..MaxCells}

\* a title column and custom columns: ':a', '1a', 'a .', '-' and '_0'
CustomHeaders ==
    {<<<<401>>, <<ColonChar, 1>>>>, <<<<401>>, <<11, 1>>>>,
     <<<<401>>, <<1, SpaceChar, DotChar>>>>, <<<<401>>, <<MinusChar>>, <<UnderscoreChar, 10>>>>}
ManualCells == {<<>>, BlankCell, TitleCell, PaddedTitleCell, <<DateLexeme(1)>>}
ManualDataRows == UNION {[1..n -> ManualCells] : n \in 0..MaxCells}
\* title, date, description; no title column; ' TITLE ' after a link column
ManualHeaders ==
    {ManualHeader, <<<<412>>, <<406>>>>, <<<<402>>, <<SpaceChar, 451, SpaceChar>>>>}
    \cup CustomHeaders

EntryTitles == {<<>>, BlankCell, TitleCell, PaddedTitleCell}
\* the text of a <content:encoded> element
EncodedContent == <<3, 4>>
AdaptDocs ==
    {[DocOf(root, <<<<d, 1>>>>) EXCEPT !.items[1].title = t] :
        root \in {"rss", "feed"}, d \in Dates, t \in EntryTitles}
    \cup {[DocOf("rss", <<<<d, 1>>>>) EXCEPT !.items[1].description = ds,
                                            !.items[1].contentEncoded = ce] :
              d \in Dates, ds \in {<<>>, DescCell(1)}, ce \in {<<>>, EncodedContent}}

\* the values of one sheet as buildFeedData may be handed them: nothing, no
\* row, a header row only, blank rows only, and rows that hold an item
SheetValues ==
    {<<>>, <<ManualHeader>>, <<ManualHeader, <<BlankCell, <<>>>>>>,
     <<<<BlankCell>>, <<>>>>, <<<<>>>>,
     <<ManualHeader, ManualRow(1, 1)>>, <<AutoRow(1, 1)>>,
     <<ManualHeader, <<BlankCell>>, ManualRow(2, 1)>>}
SheetInputs ==
    {[adpIdle EXCEPT !.kind = "sheet", !.mode = m, !.values = v] :
        m \in Modes, v \in SheetValues}
    \cup {[adpIdle EXCEPT !.kind = "sheet", !.mode = m, !.absent = TRUE] : m \in Modes}

AdaptInputs ==
    {[adpIdle EXCEPT !.kind = "auto", !.row = r] : r \in AutoRows}
    \cup {[adpIdle EXCEPT !.kind = "manual", !.values = <<h, r>>] :
             h \in ManualHeaders, r \in ManualDataRows}
    \cup {[adpIdle EXCEPT !.kind = "feed", !.doc = d] : d \in AdaptDocs}
    \cup SheetInputs

ParseSheetRowAutoMode ==
    /\ adp.kind = "auto" /\ ~adp.done
    /\ adp' = [adp EXCEPT !.done = TRUE, !.out = parseSheetRowAutoMode(adp.row)]
    /\ UNCHANGED <<now, bfd, pmu, rnd, req, conc>>

GenerateFeedManualModeInternal ==
    /\ adp.kind = "manual" /\ ~adp.done
    /\ adp' = [adp EXCEPT !.done = TRUE,
                          !.out = generateFeedManualModeInternal(adp.values)]
    /\ UNCHANGED <<now, bfd, pmu, rnd, req, conc>>

NormalizeParsedFeed ==
    /\ adp.kind = "feed" /\ ~adp.done
    /\ adp' = [adp EXCEPT
                 !.done = TRUE,
                 !.out = normalizeParsedFeed(adp.doc, <<UrlLexeme(1)>>,
                                             Infinity, Infinity).items]
    /\ UNCHANGED <<now, bfd, pmu, rnd, req, conc>>

(* ----------------------------- handlers ------------------------------- *)

RECURSIVE LeadingDigits(_)
LeadingDigits(s) ==
    IF s # <<>> /\ IsDigit(Head(s)) THEN <<Head(s)>> \o LeadingDigits(Tail(s)) ELSE <<>>

RECURSIVE DigitsValue(_)
DigitsValue(digits) ==
    IF digits = <<>> THEN 0
    ELSE 10 * DigitsValue(SubSeq(digits, 1, Len(digits) - 1))
         + (digits[Len(digits)] - DigitZero)

\* parseInt(s, 10): leading blanks, a sign, then the digits up to the first other
\* character; NaN when there is no digit
parseInt(s) ==
    LET t == TrimLeft(s)
        negative == t # <<>> /\ Head(t) = MinusChar
        digits == LeadingDigits(IF negative THEN Tail(t) ELSE t)
    IN  IF digits = <<>> THEN [isNaN |-> TRUE, value |-> 0]
        ELSE [isNaN |-> FALSE,
              value |-> IF negative THEN 0 - DigitsValue(digits) ELSE DigitsValue(digits)]

MathMin(a, b) == IF a < b THEN a ELSE b

\* a limit taken from the query as it is
effectiveItemLimitUnclamped(functionDefinedItemLimit, queryMaxItems) ==
    IF queryMaxItems # <<>> /\ ~parseInt(queryMaxItems).isNaN
       /\ parseInt(queryMaxItems).value > 0
    THEN parseInt(queryMaxItems).value
    ELSE functionDefinedItemLimit

\* effectiveItemLimit of handleSheetRequest and handleUrlRequest
effectiveItemLimit(functionDefinedItemLimit, queryMaxItems) ==
    IF queryMaxItems # <<>>
    THEN LET queryLimit == parseInt(queryMaxItems)
         IN  IF ~queryLimit.isNaN /\ queryLimit.value > 0
             THEN MathMin(functionDefinedItemLimit, queryLimit.value)
             ELSE functionDefinedItemLimit
    ELSE functionDefinedItemLimit

reqIdle ==
    [endpoint |-> "none", maxItems |-> <<>>, functionDefinedItemLimit |-> 1,
     response |-> [status |-> "pending", itemCount |-> 0]]

(* inputs of the handlers *)
\* the item limit the endpoint was registered with (50 and 10 in index.js)
FunctionDefinedItemLimit == MaxItemLimit
FunctionDefinedCharLimit == MaxCharLimit
\* max_items: missing, '0', '-1', 'a', '1', '2', '3', '1a', ' 2', '10'
QueryMaxItems ==
    {<<>>, <<10>>, <<MinusChar, 11>>, <<1>>, <<11>>, <<12>>, <<13>>, <<11, 1>>,
     <<SpaceChar, 12>>, <<11, 10>>}
\* sheets and feeds whose rows and entries differ by their date and by their
\* description, which is as long as the character limit or longer
ReqRowSpecs == Dates \X {MaxDescLen, MaxDescLen + 1}
ReqSheetSpecs == UNION {[1..n -> ReqRowSpecs] : n \in 0..MaxRows}
ReqSheetDataSpecs == UNION {[1..n -> ReqSheetSpecs] : n \in 1..MaxSheets}
ReqNetSpecs ==
    {<<"fail", "other", <<>>>>, <<"ok", "other", <<>>>>}
    \cup {<<"ok", "rss", e>> : e \in ReqSheetSpecs}
ReqRequestSpecs == UNION {[1..n -> ReqNetSpecs] : n \in 1..MaxSources}

\* handleSheetRequest up to the call of buildFeedData
HandleSheetRequest ==
    /\ req.endpoint = "none"
    /\ \E spec \in ReqSheetDataSpecs, mode \in Modes, queryMaxItems \in QueryMaxItems :
          /\ req' = [reqIdle EXCEPT
                       !.endpoint = "sheet", !.maxItems = queryMaxItems,
                       !.functionDefinedItemLimit = FunctionDefinedItemLimit]
          /\ bfd' = bfdEnter(SheetDataOf(spec, mode), mode,
                             effectiveItemLimit(FunctionDefinedItemLimit, queryMaxItems),
                             FunctionDefinedCharLimit, FALSE)
    /\ UNCHANGED <<now, pmu, rnd, adp, conc>>

\* handleUrlRequest up to the call of processMultipleUrls
HandleUrlRequest ==
    /\ req.endpoint = "none"
    /\ \E spec \in ReqRequestSpecs, groupByFeed \in BOOLEAN,
          queryMaxItems \in QueryMaxItems :
          /\ req' = [reqIdle EXCEPT
                       !.endpoint = "feed", !.maxItems = queryMaxItems,
                       !.functionDefinedItemLimit = FunctionDefinedItemLimit]
          /\ pmu' = pmuEnter(SourceUrlsOf(spec), NetOf(spec),
                             effectiveItemLimit(FunctionDefinedItemLimit, queryMaxItems),
                             FunctionDefinedCharLimit, groupByFeed)
    /\ UNCHANGED <<now, bfd, rnd, adp, conc>>

\* the feed data as the renderers read them
RenderInput(feedData) ==
    [shape |-> "object",
     metadata |-> [id |-> feedData.metadata.id, link |-> <<>>, title |-> FeedTitle,
                   groupByFeed |-> feedData.metadata.groupByFeed],
     items |-> feedData.items]

\* if (outputFormat === 'atom') ... else if 'json' ... else if 'markdown' ... else
RenderAs(outputFormat, feedData, isLlmCompact, clock) ==
    CASE outputFormat = "atom" -> generateAtomFeed(feedData, clock)
      [] outputFormat = "json" -> generateJsonFeedObject(feedData, isLlmCompact)
      [] outputFormat = "markdown" -> generateMarkdown(feedData, isLlmCompact)
      [] OTHER -> generateRssFeed(feedData)

\* the feed data of the pipeline go through the renderer of the endpoint, and
\* the document is sent: response.status(200).send(feedOutput)
SendResponse ==
    /\ req.response.status = "pending"
    /\ \/ req.endpoint = "sheet" /\ bfd.pc = "done"
       \/ req.endpoint = "feed" /\ pmu.pc = "returned"
    /\ \E outputFormat \in Formats, isLlmCompact \in BOOLEAN :
          LET feedData == RenderInput(IF req.endpoint = "sheet" THEN bfd.feedData
                                      ELSE pmu.feedData)
              result == RenderAs(outputFormat, feedData, isLlmCompact, now)
          IN  /\ req.endpoint = "feed" => outputFormat # "rss"
              /\ isLlmCompact => outputFormat \in {"json", "markdown"}
              /\ rnd' = [rndIdle EXCEPT
                           !.feedData = inputAfterRender(feedData),
                           !.rendered = {outputFormat},
                           !.compact = isLlmCompact /\ outputFormat = "json",
                           !.mdCompact = isLlmCompact /\ outputFormat = "markdown",
                           !.status[outputFormat] = result.status,
                           !.out[outputFormat] = result.entries]
              /\ req' = [req EXCEPT !.response =
                            [status |-> "200", itemCount |-> Len(feedData.items)]]
    /\ UNCHANGED <<now, bfd, pmu, adp, conc>>

\* processMultipleUrls threw: the catch block of handleUrlRequest reads sourceUrl,
\* a name that is not declared, so it throws in turn and no response is sent
HandleUrlRequestCatch ==
    /\ req.response.status = "pending"
    /\ req.endpoint = "feed" /\ pmu.pc = "threw"
    /\ req' = [req EXCEPT !.response = [status |-> "rejected", itemCount |-> 0]]
    /\ UNCHANGED <<now, bfd, pmu, rnd, adp, conc>>

BuildFeedDataCall ==
    /\ bfd.pc = "idle" /\ pmu.pc = "idle"
    /\ \E spec \in SheetDataSpecs, mode \in Modes,
          itemLimit \in ItemLimits, charLimit \in CharLimits :
          bfd' = bfdEnter(SheetDataOf(spec, mode), mode, itemLimit, charLimit, FALSE)
    /\ UNCHANGED <<now, pmu, rnd, adp, req, conc>>

BuildFeedDataSheet ==
    /\ bfd.pc = "sheets"
    /\ bfd.sheetIdx <= Len(bfd.sheetData)
    /\ bfd' = bfdSheet(bfd)
    /\ UNCHANGED <<now, pmu, rnd, adp, req, conc>>

BuildFeedDataReturn ==
    /\ bfd.pc = "sheets"
    /\ bfd.sheetIdx > Len(bfd.sheetData)
    /\ bfd' = bfdReturn(bfd, now)
    /\ UNCHANGED <<now, pmu, rnd, adp, req, conc>>

(* ------------------------ concurrent requests -------------------------- *)
\* concurrency: 15 of the endpoints: one instance runs several handlers, each
\* one suspended at its awaits; two of them are followed here
Requests == 1..2

callIdle ==
    [kind |-> "none", pmu |-> pmuIdle, bfd |-> bfdIdle, entered |-> pmuIdle,
     at |-> NullDate, overlapped |-> FALSE]
concIdle == [r \in Requests |-> callIdle]

\* the accumulators of a call that one module-level binding holds for all calls
SharedScope(calls, r) ==
    [calls[r] EXCEPT !.pmu.allItems = calls[1].pmu.allItems,
                     !.bfd.allItems = calls[1].bfd.allItems]

\* let allItems = [], allFeedMetadata = [], any...Limited = false: the bindings
\* a call reads and writes are created by the call itself
RequestScope(calls, r) == calls[r]

InFlight(call) ==
    \/ call.kind = "feed" /\ call.pmu.pc \in {"loop", "awaiting"}
    \/ call.kind = "sheet" /\ call.bfd.pc = "sheets"

RECURSIVE bfdRun(_)
\* Object.keys(sheetData).forEach(...): all rounds, with no await among them
bfdRun(f) == IF f.sheetIdx > Len(f.sheetData) THEN f ELSE bfdRun(bfdSheet(f))

(* inputs of the two requests *)
ConcItemLimit == 1
ConcSheetSpecs == {<<<<1, MaxDescLen>>>>, <<<<2, MaxDescLen>>, <<0, MaxDescLen>>>>}
ConcNetSpecs ==
    {<<"fail", "other", <<>>>>} \cup {<<"ok", "rss", e>> : e \in ConcSheetSpecs}
ConcRequestSpecs == UNION {[1..n -> ConcNetSpecs] : n \in 1..MaxSources}

\* handleUrlRequest calls processMultipleUrls
ConcProcessMultipleUrls(r) ==
    /\ conc[r].kind = "none"
    /\ \E spec \in ConcRequestSpecs, groupByFeed \in BOOLEAN :
          LET f == pmuEnter(SourceUrlsOf(spec), NetOf(spec), ConcItemLimit,
                            MaxCharLimit, groupByFeed)
          IN  conc' = [conc EXCEPT
                         ![r] = [callIdle EXCEPT
                                   !.kind = "feed", !.pmu = f, !.entered = f,
                                   !.overlapped =
                                       \E o \in Requests \ {r} : InFlight(conc[o])]]
    /\ UNCHANGED <<now, bfd, pmu, rnd, adp, req>>

\* handleSheetRequest awaits the sheet values
ConcGetSheetData(r) ==
    /\ conc[r].kind = "none"
    /\ \E sheet \in ConcSheetSpecs, mode \in Modes :
          LET f == bfdEnter(SheetDataOf(<<sheet>>, mode), mode, ConcItemLimit,
                            MaxCharLimit, FALSE)
          IN  conc' = [conc EXCEPT
                         ![r] = [callIdle EXCEPT
                                   !.kind = "sheet", !.bfd = f, !.entered = f,
                                   !.overlapped =
                                       \E o \in Requests \ {r} : InFlight(conc[o])]]
    /\ UNCHANGED <<now, bfd, pmu, rnd, adp, req>>

\* the sheet values arrived: buildFeedData runs from its first line to its return
ConcBuildFeedData(r) ==
    /\ conc[r].kind = "sheet" /\ conc[r].bfd.pc = "sheets"
    /\ conc' = [conc EXCEPT
                  ![r] = [RequestScope(conc, r) EXCEPT
                            !.bfd = bfdReturn(bfdRun(RequestScope(conc, r).bfd), now),
                            !.at = now]]
    /\ UNCHANGED <<now, bfd, pmu, rnd, adp, req>>

ConcFetchUrlContent(r) ==
    /\ conc[r].kind = "feed" /\ conc[r].pmu.pc = "loop"
    /\ conc[r].pmu.urlIdx <= Len(conc[r].pmu.sourceUrls)
    /\ conc' = [conc EXCEPT
                  ![r] = [RequestScope(conc, r) EXCEPT
                            !.pmu = pmuFetch(RequestScope(conc, r).pmu)]]
    /\ UNCHANGED <<now, bfd, pmu, rnd, adp, req>>

ConcFetchResolved(r) ==
    /\ conc[r].kind = "feed" /\ conc[r].pmu.pc = "awaiting"
    /\ conc[r].pmu.net[conc[r].pmu.urlIdx].outcome = "ok"
    /\ conc' = [conc EXCEPT
                  ![r] = [RequestScope(conc, r) EXCEPT
                            !.pmu = pmuResolve(RequestScope(conc, r).pmu)]]
    /\ UNCHANGED <<now, bfd, pmu, rnd, adp, req>>

ConcFetchRejected(r) ==
    /\ conc[r].kind = "feed" /\ conc[r].pmu.pc = "awaiting"
    /\ conc[r].pmu.net[conc[r].pmu.urlIdx].outcome = "fail"
    /\ conc' = [conc EXCEPT
                  ![r] = [RequestScope(conc, r) EXCEPT
                            !.pmu = pmuReject(RequestScope(conc, r).pmu)]]
    /\ UNCHANGED <<now, bfd, pmu, rnd, adp, req>>

ConcProcessMultipleUrlsThrow(r) ==
    /\ conc[r].kind = "feed" /\ conc[r].pmu.pc = "loop"
    /\ conc[r].pmu.urlIdx > Len(conc[r].pmu.sourceUrls)
    /\ pmuThrows(RequestScope(conc, r).pmu)
    /\ conc' = [conc EXCEPT ![r].pmu.pc = "threw", ![r].at = now]
    /\ UNCHANGED <<now, bfd, pmu, rnd, adp, req>>

ConcProcessMultipleUrlsReturn(r) ==
    /\ conc[r].kind = "feed" /\ conc[r].pmu.pc = "loop"
    /\ conc[r].pmu.urlIdx > Len(conc[r].pmu.sourceUrls)
    /\ ~pmuThrows(RequestScope(conc, r).pmu)
    /\ conc' = [conc EXCEPT
                  ![r] = [RequestScope(conc, r) EXCEPT
                            !.pmu = pmuReturn(RequestScope(conc, r).pmu, now),
                            !.at = now]]
    /\ UNCHANGED <<now, bfd, pmu, rnd, adp, req>>

(* ----------------------- one sheet, whatever it holds ------------------ *)
\* values.map(...) of generateItemData on a sheet without values: a TypeError;
\* generateFeedManualModeInternal returns [] on !values
generateItemDataThrows(absent, mode) == absent /\ mode # "manual"

\* buildFeedData on a sheetData object with this one sheet
BuildFeedData ==
    /\ adp.kind = "sheet" /\ ~adp.done
    /\ IF generateItemDataThrows(adp.absent, adp.mode)
       THEN adp' = [adp EXCEPT !.done = TRUE, !.status = "threw"]
       ELSE LET f == bfdReturn(bfdRun(bfdEnter(<<adp.values>>, adp.mode, Infinity,
                                               Infinity, FALSE)), now)
            IN  adp' = [adp EXCEPT !.done = TRUE, !.status = "ok",
                                   !.out = f.feedData.items,
                                   !.metadata = f.feedData.metadata]
    /\ UNCHANGED <<now, bfd, pmu, rnd, req, conc>>

vars == <<now, bfd, pmu, rnd, adp, req, conc>>

Init ==
    /\ now = ClockStart
    /\ bfd = bfdIdle
    /\ pmu = pmuIdle
    /\ rnd = rndIdle
    /\ adp = adpIdle
    /\ req = reqIdle
    /\ conc = concIdle

\* a feed is handed to the renderers
InitRender ==
    /\ now = ClockStart
    /\ bfd = bfdIdle
    /\ pmu = pmuIdle
    /\ \E fd \in RenderFeeds : rnd = [rndIdle EXCEPT !.feedData = fd]
    /\ adp = adpIdle
    /\ req = reqIdle
    /\ conc = concIdle

\* a row, a sheet or a parsed document is handed to its adapter
InitAdapt ==
    /\ now = ClockStart
    /\ bfd = bfdIdle
    /\ pmu = pmuIdle
    /\ rnd = rndIdle
    /\ adp \in AdaptInputs
    /\ req = reqIdle
    /\ conc = concIdle

NextSheet == BuildFeedDataCall \/ BuildFeedDataSheet \/ BuildFeedDataReturn

NextUrl ==
    \/ ProcessMultipleUrlsCall \/ FetchUrlContent \/ FetchResolved
    \/ FetchRejected \/ ProcessMultipleUrlsThrow \/ ProcessMultipleUrlsReturn

\* one request, to the sheet endpoint or to the feed endpoint
Next == NextSheet \/ NextUrl

Spec == Init /\ [][Next]_vars

SpecUrl == Init /\ [][NextUrl]_vars

\* the event loop runs every continuation that is ready; a request arrives or not
FairSpecUrl ==
    /\ SpecUrl
    /\ WF_vars(FetchUrlContent) /\ WF_vars(FetchResolved) /\ WF_vars(FetchRejected)
    /\ WF_vars(ProcessMultipleUrlsThrow) /\ WF_vars(ProcessMultipleUrlsReturn)

NextRender ==
    \/ Tick \/ GenerateRssFeed \/ GenerateAtomFeed
    \/ GenerateJsonFeedObject \/ GenerateMarkdown

SpecRender == InitRender /\ [][NextRender]_vars

NextAdapt ==
    \/ ParseSheetRowAutoMode \/ GenerateFeedManualModeInternal \/ NormalizeParsedFeed
    \/ BuildFeedData

SpecAdapt == InitAdapt /\ [][NextAdapt]_vars

\* one HTTP request from its arrival to its response
NextRequest ==
    \/ HandleSheetRequest \/ BuildFeedDataSheet \/ BuildFeedDataReturn
    \/ HandleUrlRequest \/ FetchUrlContent \/ FetchResolved \/ FetchRejected
    \/ ProcessMultipleUrlsThrow \/ ProcessMultipleUrlsReturn
    \/ SendResponse \/ HandleUrlRequestCatch

SpecRequest == Init /\ [][NextRequest]_vars

\* two requests in one instance, their steps in any order
NextConc ==
    \/ \E r \in Requests :
          \/ ConcProcessMultipleUrls(r) \/ ConcGetSheetData(r)
          \/ ConcBuildFeedData(r)
          \/ ConcFetchUrlContent(r) \/ ConcFetchResolved(r) \/ ConcFetchRejected(r)
          \/ ConcProcessMultipleUrlsThrow(r) \/ ConcProcessMultipleUrlsReturn(r)
    \/ Tick

SpecConc == Init /\ [][NextConc]_vars

\* one feed request whose URL list may hold repeats
NextFetch ==
    \/ ProcessMultipleUrlsCallRepeated
    \/ FetchUrlContent \/ FetchResolved \/ FetchRejected
    \/ ProcessMultipleUrlsThrow \/ ProcessMultipleUrlsReturn

SpecFetch == Init /\ [][NextFetch]_vars

(* ======================================================================= *)
(* Properties                                                              *)
(* ======================================================================= *)
Min(a, b) == IF a < b THEN a ELSE b
Range(seq) == {seq[i] : i \in DOMAIN seq}
Count(seq, x) == Cardinality({i \in DOMAIN seq : seq[i] = x})
IsPermutation(a, b) ==
    /\ Len(a) = Len(b)
    /\ \A x \in Range(a) \cup Range(b) : Count(a, x) = Count(b, x)

RECURSIVE ConcatUpTo(_, _)
\* Block(1) \o Block(2) \o .. \o Block(n)
ConcatUpTo(Block(_), n) ==
    IF n = 0 THEN <<>> ELSE ConcatUpTo(Block, n - 1) \o Block(n)

RECURSIVE SumUpTo(_, _)
SumUpTo(Term(_), n) == IF n = 0 THEN 0 ELSE SumUpTo(Term, n - 1) + Term(n)

Dated(item) == item.dateObject # NullDate
Undated(item) == item.dateObject = NullDate

\* dated items first, newest first
IsSorted(items) ==
    \A i, j \in DOMAIN items :
        i < j =>
            /\ Dated(items[j]) => Dated(items[i])
            /\ Dated(items[i]) /\ Dated(items[j])
                   => items[i].dateObject >= items[j].dateObject

\* the description a limit of c characters leaves
Truncated(desc, c) ==
    IF Len(desc) > c THEN SubSeq(desc, 1, c) \o <<0, 0, 0>> ELSE desc
WithTruncated(items, c) ==
    [i \in DOMAIN items |->
        [items[i] EXCEPT !.descriptionContent = Truncated(@, c)]]
FirstN(items, n) == SubSeq(items, 1, Min(Len(items), n))

(* the sources of the sheet request, from its input *)
SheetRaw(s) == adaptRows(bfd.sheetData[s], bfd.mode)
SheetYield(s) == Len(SheetRaw(s))
SheetBlock(s) ==
    WithTruncated(FirstN(sortFeedItems(SheetRaw(s)), bfd.itemLimit), bfd.charLimit)
SheetsDone == IF bfd.pc = "done" THEN Len(bfd.sheetData) ELSE bfd.sheetIdx - 1

(* the sources of the feed request, from its input *)
UrlIncluded(i) ==
    pmu.net[i].outcome = "ok" /\ pmu.net[i].doc.root \in {"rss", "feed"}
UrlRaw(i) ==
    IF UrlIncluded(i) THEN ParsedItems(pmu.net[i].doc, pmu.sourceUrls[i]) ELSE <<>>
UrlYield(i) == Len(UrlRaw(i))
UrlBlock(i) ==
    WithTruncated(FirstN(sortFeedItems(UrlRaw(i)), pmu.itemLimit), pmu.charLimit)
UrlsDone ==
    IF pmu.pc \in {"returned", "threw"} THEN Len(pmu.sourceUrls) ELSE pmu.urlIdx - 1
ItemsFrom(items, i) ==
    SelectSeq(items, LAMBDA it : it.sourceInfo.url = pmu.sourceUrls[i])

\* C1: the item list buildFeedData returns, and the one processMultipleUrls
\* returns when grouping is disabled, is sorted: every dated item precedes every
\* undated item and the dated items are in non-increasing date order.
C1_Sorted ==
    /\ bfd.pc = "done" => IsSorted(bfd.feedData.items)
    /\ pmu.pc = "returned" /\ ~pmu.groupByFeed => IsSorted(pmu.feedData.items)

\* a combined list of three sheet items, two dates and an undated item, whose
\* first sheet holds only the undated item: the global sort had to move it
C1_Witness ==
    /\ bfd.pc = "done"
    /\ Len(bfd.sheetData) = 2
    /\ SheetBlock(1) # <<>> /\ Undated(SheetBlock(1)[1])
    /\ \E i, j \in DOMAIN bfd.feedData.items :
          /\ Dated(bfd.feedData.items[i]) /\ Dated(bfd.feedData.items[j])
          /\ bfd.feedData.items[i].dateObject > bfd.feedData.items[j].dateObject

\* C2: the sort is stable for undated items: in the aggregated, ungrouped result
\* the undated items are in source order and, inside a source, in row / entry
\* order (those of them that the per-source limit kept).
UndatedKept(raw, itemLimit, charLimit) ==
    LET dated == Len(SelectSeq(raw, Dated))
        undated == SelectSeq(raw, Undated)
        room == IF itemLimit > dated THEN itemLimit - dated ELSE 0
    IN  WithTruncated(FirstN(undated, room), charLimit)
SheetUndated(s) == UndatedKept(SheetRaw(s), bfd.itemLimit, bfd.charLimit)
UrlUndated(i) == UndatedKept(UrlRaw(i), pmu.itemLimit, pmu.charLimit)

C2_StableUndated ==
    /\ bfd.pc = "done" =>
          SelectSeq(bfd.feedData.items, Undated)
              = ConcatUpTo(SheetUndated, Len(bfd.sheetData))
    /\ pmu.pc = "returned" /\ ~pmu.groupByFeed =>
          SelectSeq(pmu.feedData.items, Undated)
              = ConcatUpTo(UrlUndated, Len(pmu.sourceUrls))

\* two different undated rows of one sheet, both kept, and a dated row after them
C2_Witness ==
    /\ bfd.pc = "done"
    /\ \E s \in DOMAIN bfd.sheetData :
          /\ Len(SheetUndated(s)) = 2
          /\ SheetUndated(s)[1] # SheetUndated(s)[2]
    /\ \E s \in DOMAIN bfd.sheetData :
          \E r \in DOMAIN SheetRaw(s) : r > 1 /\ Dated(SheetRaw(s)[r])

\* C3 as stated: with itemLimit = N, an input that yields M > N items gives
\* exactly N items and itemCountLimited = true; M <= N gives all M items and
\* itemCountLimited = false (M counted over the whole input of buildFeedData).
C3_Original ==
    bfd.pc = "done" =>
        LET m == SumUpTo(SheetYield, Len(bfd.sheetData))
            n == bfd.itemLimit
        IN  /\ m > n => /\ Len(bfd.feedData.items) = n
                        /\ bfd.feedData.metadata.itemCountLimited
            /\ m <= n => /\ Len(bfd.feedData.items) = m
                         /\ ~bfd.feedData.metadata.itemCountLimited

\* C3 amended: the item limit N applies to each source separately. A source (a
\* sheet of buildFeedData, the feed of normalizeParsedFeed) that yields M items
\* contributes min(M, N) of them; itemCountLimited is true exactly when some
\* source yields more than N items, and then only such sources lose items.
SheetKept(s) == Min(SheetYield(s), bfd.itemLimit)
UrlKept(i) == Min(UrlYield(i), pmu.itemLimit)
MetadataOf(i) ==
    SelectSeq(pmu.allFeedMetadata, LAMBDA m : m.feedUrl = pmu.sourceUrls[i])

C3_PerSourceItemLimit ==
    /\ bfd.pc \in {"sheets", "done"} =>
          /\ Len(bfd.allItems) = SumUpTo(SheetKept, SheetsDone)
          /\ bfd.anySheetWasItemLimited
                <=> \E s \in 1..SheetsDone : SheetYield(s) > bfd.itemLimit
    /\ bfd.pc = "done" =>
          /\ Len(bfd.feedData.items) = SumUpTo(SheetKept, Len(bfd.sheetData))
          /\ bfd.feedData.metadata.itemCountLimited
                <=> \E s \in DOMAIN bfd.sheetData : SheetYield(s) > bfd.itemLimit
    /\ pmu.pc \in {"loop", "awaiting", "returned", "threw"} =>
          \A i \in 1..UrlsDone :
              UrlIncluded(i) =>
                  /\ Len(ItemsFrom(pmu.allItems, i)) = UrlKept(i)
                  /\ Len(MetadataOf(i)) = 1
                  /\ MetadataOf(i)[1].itemCountLimited
                        <=> UrlYield(i) > pmu.itemLimit

\* two sheets, one over the limit and cut to it, one under it and kept whole
C3_Witness ==
    /\ bfd.pc = "done"
    /\ Len(bfd.sheetData) = 2
    /\ SheetYield(1) > bfd.itemLimit
    /\ SheetYield(2) > 0 /\ SheetYield(2) <= bfd.itemLimit
    /\ bfd.feedData.metadata.itemCountLimited
    /\ Len(bfd.feedData.items) > bfd.itemLimit

\* C4: with charLimit = C, a returned item whose adapted description was longer
\* than C characters has exactly its first C characters followed by '...'; any
\* other description is unchanged; itemCharLimited is true if and only if at
\* least one returned item was truncated.
SheetKeptRaw(s) == FirstN(sortFeedItems(SheetRaw(s)), bfd.itemLimit)
UrlKeptRaw(i) == FirstN(sortFeedItems(UrlRaw(i)), pmu.itemLimit)
Descriptions(items) == [i \in DOMAIN items |-> items[i].descriptionContent]
TruncatedDescriptions(items, c) ==
    [i \in DOMAIN items |-> Truncated(items[i].descriptionContent, c)]
SheetDescriptions(s) == TruncatedDescriptions(SheetKeptRaw(s), bfd.charLimit)
UrlDescriptions(i) == TruncatedDescriptions(UrlKeptRaw(i), pmu.charLimit)

C4_CharLimit ==
    /\ bfd.pc = "sheets" =>
          Descriptions(bfd.allItems) = ConcatUpTo(SheetDescriptions, SheetsDone)
    /\ bfd.pc = "done" =>
          /\ IsPermutation(Descriptions(bfd.feedData.items),
                           ConcatUpTo(SheetDescriptions, Len(bfd.sheetData)))
          /\ bfd.feedData.metadata.itemCharLimited
                <=> \E s \in DOMAIN bfd.sheetData :
                        \E k \in DOMAIN SheetKeptRaw(s) :
                            Len(SheetKeptRaw(s)[k].descriptionContent) > bfd.charLimit
    /\ pmu.pc \in {"loop", "awaiting"} =>
          Descriptions(pmu.allItems) = ConcatUpTo(UrlDescriptions, UrlsDone)
    /\ pmu.pc = "returned" =>
          /\ IsPermutation(Descriptions(pmu.feedData.items),
                           ConcatUpTo(UrlDescriptions, Len(pmu.sourceUrls)))
          /\ pmu.feedData.metadata.itemCharLimited
                <=> \E i \in DOMAIN pmu.sourceUrls :
                        \E k \in DOMAIN UrlKeptRaw(i) :
                            Len(UrlKeptRaw(i)[k].descriptionContent) > pmu.charLimit

\* a returned list with a description cut to one character plus '...', next to
\* one that was short enough and is unchanged
C4_Witness ==
    /\ bfd.pc = "done"
    /\ bfd.charLimit = 1
    /\ bfd.feedData.metadata.itemCharLimited
    /\ \E i, j \in DOMAIN bfd.feedData.items :
          /\ bfd.feedData.items[i].descriptionContent = <<1, 0, 0, 0>>
          /\ bfd.feedData.items[j].descriptionContent = <<1>>

\* C9: limits are applied per source before merging: a source that yields n
\* items contributes exactly min(n, itemLimit) items, the first ones of its own
\* sorted list, with their descriptions already truncated, whatever the other
\* sources hold.
C9_LimitsPerSource ==
    /\ bfd.pc = "sheets" => bfd.allItems = ConcatUpTo(SheetBlock, SheetsDone)
    /\ bfd.pc = "done" =>
          IsPermutation(bfd.feedData.items,
                        ConcatUpTo(SheetBlock, Len(bfd.sheetData)))
    /\ pmu.pc \in {"loop", "awaiting"} =>
          pmu.allItems = ConcatUpTo(UrlBlock, UrlsDone)
    /\ pmu.pc = "returned" =>
          \A i \in DOMAIN pmu.sourceUrls :
              ItemsFrom(pmu.feedData.items, i) = UrlBlock(i)

\* two feeds merged without grouping, the first cut to the limit although the
\* item it lost is newer than every item of the second feed
C9_Witness ==
    /\ pmu.pc = "returned" /\ ~pmu.groupByFeed
    /\ Len(pmu.sourceUrls) = 2
    /\ UrlYield(1) > pmu.itemLimit
    /\ UrlYield(2) > 0
    /\ \E k \in DOMAIN UrlRaw(1) :
          /\ Dated(UrlRaw(1)[k])
          /\ \A x \in Range(UrlBlock(1)) : x.dateObject >= UrlRaw(1)[k].dateObject
          /\ \E y \in Range(UrlBlock(2)) :
                Dated(y) /\ y.dateObject < UrlRaw(1)[k].dateObject
    /\ Len(pmu.feedData.items) = pmu.itemLimit + UrlKept(2)

\* C5 as stated: processMultipleUrls ends in a hard failure only if every source
\* failed to be fetched or parsed (an unrecognized document counted as failed).
C5_Original ==
    pmu.pc = "threw" => \A i \in DOMAIN pmu.sourceUrls : ~UrlIncluded(i)

\* C5 amended: processMultipleUrls ends in a hard failure exactly when no source
\* contributed an item (each one failed, was not recognized, or was fetched and
\* parsed but holds no item); whenever some source yields an item it returns.
C5_FailsIffNoItem ==
    /\ pmu.pc = "threw" => \A i \in DOMAIN pmu.sourceUrls : UrlYield(i) = 0
    /\ pmu.pc = "returned" => \E i \in DOMAIN pmu.sourceUrls : UrlYield(i) > 0

\* a hard failure although a source was fetched and parsed: its feed is empty
C5_Witness ==
    /\ pmu.pc = "threw"
    /\ \E i \in DOMAIN pmu.sourceUrls : UrlIncluded(i) /\ UrlYield(i) = 0

SomeFailed == \E i \in DOMAIN pmu.sourceUrls : pmu.net[i].outcome = "fail"
SomeSucceeded == \E i \in DOMAIN pmu.sourceUrls : pmu.net[i].outcome = "ok"

\* C6 as stated: when some but not all sources fail, the merged list is exactly
\* the limited items of the sources that succeeded and no exception is raised.
C6_Original ==
    pmu.pc \in {"returned", "threw"} /\ SomeFailed /\ SomeSucceeded =>
        /\ pmu.pc = "returned"
        /\ IsPermutation(pmu.feedData.items,
                         ConcatUpTo(UrlBlock, Len(pmu.sourceUrls)))

\* C6 amended: when some but not all sources fail, the merged list is exactly the
\* limited items of the sources that succeeded, a failed source contributes no
\* item and costs no other source an item; no exception is raised provided a
\* source that succeeded yields at least one item (otherwise the request fails
\* as in C5).
C6_PartialFailure ==
    /\ pmu.pc \in {"loop", "awaiting"} =>
          \A i \in 1..UrlsDone :
              ItemsFrom(pmu.allItems, i) = UrlBlock(i)
    /\ pmu.pc \in {"returned", "threw"} /\ SomeFailed /\ SomeSucceeded =>
          /\ (\E i \in DOMAIN pmu.sourceUrls : UrlYield(i) > 0) => pmu.pc = "returned"
          /\ pmu.pc = "returned" =>
                /\ IsPermutation(pmu.feedData.items,
                                 ConcatUpTo(UrlBlock, Len(pmu.sourceUrls)))
                /\ \A i \in DOMAIN pmu.sourceUrls :
                      pmu.net[i].outcome = "fail"
                          => ItemsFrom(pmu.feedData.items, i) = <<>>

\* the first source gave items, the second failed, the result holds the first's
C6_Witness ==
    /\ pmu.pc = "returned"
    /\ Len(pmu.sourceUrls) = 2
    /\ UrlYield(1) > 0
    /\ pmu.net[2].outcome = "fail"
    /\ pmu.feedData.items = UrlBlock(1)

\* C7: a source whose fetch fails or never completes does not block the other
\* sources of the request: every other source is eventually fetched and adapted.
C7_FailureIsolation ==
    \A j \in 1..MaxSources :
        (pmu.pc # "idle" /\ j <= Len(pmu.sourceUrls) /\ pmu.net[j].outcome # "hang")
            ~> (pmu.urlIdx > j)

\* C8: with grouping requested the merged list is the concatenation, in the
\* caller's URL order, of each successful source's own list: no global re-sort,
\* and each source's block is sorted (dated first, newest first).
C8_GroupedConcat ==
    pmu.pc = "returned" /\ pmu.groupByFeed =>
        /\ pmu.feedData.items = ConcatUpTo(UrlBlock, Len(pmu.sourceUrls))
        /\ \A i \in DOMAIN pmu.sourceUrls :
              IsSorted(ItemsFrom(pmu.feedData.items, i))

\* a grouped result of two sources that a global sort would have reordered
C8_Witness ==
    /\ pmu.pc = "returned" /\ pmu.groupByFeed
    /\ Len(pmu.sourceUrls) = 2
    /\ UrlYield(1) > 0 /\ UrlYield(2) > 0
    /\ ~IsSorted(pmu.feedData.items)

\* C10: the content-hash identifier is deterministic: an item with neither an
\* explicit id nor an http(s) link gets the same identifier each time the same
\* feed is rendered in the same format, whatever the wall-clock time.
HashFallback(item) == item.id = <<>> /\ ~StartsWithHttp(item.link)

C10_DeterministicId ==
    [][\A fmt \in Formats :
          fmt \in rnd.rendered /\ fmt \in rnd'.rendered /\ rnd'.compact = rnd.compact
              => \A k \in DOMAIN rnd.out[fmt] \cap DOMAIN rnd'.out[fmt] :
                    HashFallback(rnd.feedData.items[k])
                        => rnd'.out[fmt][k].id = rnd.out[fmt][k].id]_vars

\* the columns whose header, trimmed and in lower case, is the word title
TitleColumns(headers) ==
    {i \in DOMAIN headers : Trim(ToLower(headers[i])) = <<401>>}

\* the data row has no title: no title column, or its cell there is missing or blank
RowLacksTitle(headers, row) ==
    \A i \in TitleColumns(headers) :
        (\E j \in TitleColumns(headers) : j < i) \/ i \notin DOMAIN row \/ IsBlank(row[i])

UrlUnknown(i) ==
    pmu.net[i].outcome = "ok" /\ pmu.net[i].doc.root \notin {"rss", "feed"}
OnlyUnknown == \A i \in DOMAIN pmu.sourceUrls : UrlUnknown(i)
UnknownMetadata(i) ==
    normalizeParsedFeed(pmu.net[i].doc, pmu.sourceUrls[i],
                        pmu.itemLimit, pmu.charLimit)

StructurallyInvalid(feedData) ==
    \/ IsInvalidFeedData(feedData)
    \/ \E i \in DOMAIN feedData.items : IsNullItem(feedData.items[i])

\* C14: given structurally invalid input (feed data absent, metadata absent,
\* items not a list, or an entry of the item list absent) each of the four
\* renderers returns the error document of its format and never throws.
C14_ErrorDocument ==
    \A fmt \in rnd.rendered :
        StructurallyInvalid(rnd.feedData) => rnd.status[fmt] = "error"

\* the text a format prints for the instant d
DateTextOf(fmt, d) ==
    IF fmt = "rss" THEN formatGmt(d)
    ELSE IF fmt = "markdown" /\ ~rnd.mdCompact THEN formatLong(d)
    ELSE formatISO(d)

LimitAskedFor ==
    [q \in QueryMaxItems |->
        CASE q = <<11>> -> MathMin(1, FunctionDefinedItemLimit)
          [] q = <<12>> -> MathMin(2, FunctionDefinedItemLimit)
          [] q = <<13>> -> MathMin(3, FunctionDefinedItemLimit)
          [] q = <<11, 10>> -> MathMin(10, FunctionDefinedItemLimit)
          [] q = <<11, 1>> -> MathMin(1, FunctionDefinedItemLimit)
          [] q = <<SpaceChar, 12>> -> MathMin(2, FunctionDefinedItemLimit)
          [] OTHER -> FunctionDefinedItemLimit]

\* max_items is a number N written in digits only
PlainNumber(q) == q # <<>> /\ \A k \in DOMAIN q : IsDigit(q[k])

\* the limit the request in progress runs under, and the number of its sources
ReqLimit == IF req.endpoint = "sheet" THEN bfd.itemLimit ELSE pmu.itemLimit
ReqSources ==
    IF req.endpoint = "sheet" THEN Len(bfd.sheetData) ELSE Len(pmu.sourceUrls)

SheetCharLimited(s) ==
    \E k \in DOMAIN SheetKeptRaw(s) :
        Len(SheetKeptRaw(s)[k].descriptionContent) > bfd.charLimit
UrlCharLimited(i) ==
    \E k \in DOMAIN UrlKeptRaw(i) :
        Len(UrlKeptRaw(i)[k].descriptionContent) > pmu.charLimit

\* the flags of a finished request against its sources
FinalFlagsRight ==
    /\ bfd.pc = "done" =>
          /\ bfd.feedData.metadata.itemCountLimited
                <=> \E s \in DOMAIN bfd.sheetData : SheetYield(s) > bfd.itemLimit
          /\ bfd.feedData.metadata.itemCharLimited
                <=> \E s \in DOMAIN bfd.sheetData : SheetCharLimited(s)
    /\ pmu.pc = "returned" =>
          /\ pmu.feedData.metadata.itemCountLimited
                <=> \E i \in DOMAIN pmu.sourceUrls :
                        UrlIncluded(i) /\ UrlYield(i) > pmu.itemLimit
          /\ pmu.feedData.metadata.itemCharLimited
                <=> \E i \in DOMAIN pmu.sourceUrls :
                        UrlIncluded(i) /\ UrlCharLimited(i)

\* a step of a request never takes a flag from true back to false, the step
\* that writes the final metadata included
FlagsKept ==
    /\ bfd.anySheetWasItemLimited => bfd'.anySheetWasItemLimited
    /\ bfd.anySheetWasCharLimited => bfd'.anySheetWasCharLimited
    /\ pmu.anyIndividualFeedWasItemLimited => pmu'.anyIndividualFeedWasItemLimited
    /\ pmu.anyIndividualFeedWasCharLimited => pmu'.anyIndividualFeedWasCharLimited
    /\ bfd'.pc = "done" =>
          /\ bfd.anySheetWasItemLimited => bfd'.feedData.metadata.itemCountLimited
          /\ bfd.anySheetWasCharLimited => bfd'.feedData.metadata.itemCharLimited
    /\ pmu'.pc = "returned" =>
          /\ pmu.anyIndividualFeedWasItemLimited
                => pmu'.feedData.metadata.itemCountLimited
          /\ pmu.anyIndividualFeedWasCharLimited
                => pmu'.feedData.metadata.itemCharLimited

\* C17: while a request goes through its sheets or its feed URLs, neither
\* truncation flag goes from true back to false, and the flag of the final
\* metadata is true if and only if at least one included source was limited.
C17_FlagsMonotone == []FinalFlagsRight /\ [][FlagsKept]_vars

\* two feeds were merged, the first one cut to the limit and the second one
\* whole, and the final flag is the first one's
C17_Witness ==
    /\ pmu.pc = "returned"
    /\ Len(pmu.sourceUrls) = 2
    /\ UrlIncluded(1) /\ UrlYield(1) > pmu.itemLimit
    /\ UrlIncluded(2) /\ UrlYield(2) <= pmu.itemLimit /\ ~UrlCharLimited(2)
    /\ pmu.feedData.metadata.itemCountLimited


(* ---- C18: two requests at a time -------------------------------------- *)
RECURSIVE pmuAlone(_, _)
\* processMultipleUrls run from its first line to its last with nothing else
\* running, on the answers net[i] and with the clock reading given
pmuAlone(f, clock) ==
    IF f.urlIdx > Len(f.sourceUrls)
    THEN IF pmuThrows(f) THEN [f EXCEPT !.pc = "threw"] ELSE pmuReturn(f, clock)
    ELSE IF f.net[f.urlIdx].outcome = "ok"
         THEN pmuAlone(pmuResolve(pmuFetch(f)), clock)
         ELSE pmuAlone(pmuReject(pmuFetch(f)), clock)
bfdAlone(f, clock) == bfdReturn(bfdRun(f), clock)

Finished(call) ==
    \/ call.kind = "feed" /\ call.pmu.pc \in {"returned", "threw"}
    \/ call.kind = "sheet" /\ call.bfd.pc = "done"

IdFormats == {"rss", "atom", "json"}

\* the identifier is a content hash behind the id of the feed and a colon
IsPrefixedHash(id, metadata) ==
    \E n \in 1..Len(id) :
        /\ id[n] = ColonChar /\ n < Len(id) /\ id[n + 1] = HashTag
        /\ \A m \in (n + 1)..Len(id) : id[m] = HashTag => m = n + 1
        /\ metadata.id # <<>> => SubSeq(id, 1, n - 1) = metadata.id
ContainsHash(id) == \E n \in DOMAIN id : id[n] = HashTag

\* C19: in the RSS, Atom and JSON Feed renderers the identifier of an item is its
\* explicit id when it has one; otherwise its link when that is an absolute
\* http(s) link; otherwise a content hash prefixed by the id of the owning feed;
\* and a hash is used only when the item has neither id nor link.
C19_IdResolution ==
    \A fmt \in IdFormats \cap rnd.rendered :
        rnd.status[fmt] = "ok" =>
            \A k \in DOMAIN rnd.out[fmt] :
                LET item == rnd.feedData.items[k]
                    id == rnd.out[fmt][k].id
                IN  /\ item.id # <<>> => id = item.id
                    /\ item.id = <<>> /\ StartsWithHttp(item.link) => id = item.link
                    /\ item.id = <<>> /\ ~StartsWithHttp(item.link)
                          => IsPrefixedHash(id, rnd.feedData.metadata)
                    /\ ContainsHash(id) => item.id = <<>> /\ item.link = <<>>


(* ---- C20: auto mode, one pass against stages -------------------------- *)
IsLinkCell(cell) == StartsWithHttp(cell) /\ IsValidUrl(cell)
IsDateCell(cell) == IsValidDate(parseDateString(cell))
\* the least index of a set of cell indices, 0 when the set is empty
FirstOf(indices) ==
    IF indices = {} THEN 0 ELSE CHOOSE i \in indices : \A j \in indices : i <= j

\* stage 1, the title; stage 2, the link among the other cells; stage 3, the
\* date among the cells that are neither
StagedTitle(row) == FirstOf({i \in DOMAIN row : ~IsBlank(row[i])})
StagedLink(row) ==
    FirstOf({i \in DOMAIN row \ {StagedTitle(row)} : IsLinkCell(row[i])})
StagedDate(row) ==
    FirstOf({i \in DOMAIN row \ {StagedTitle(row), StagedLink(row)} :
                IsDateCell(row[i])})

\* C20: the one pass of auto mode over the cells of a row gives what the stages
\* give: the title is the first non-blank cell (trimmed), the link is the first
\* other cell that is an absolute http(s) URL, the date is that of the first
\* cell, other than title and link, that the date parser accepts; so a cell that
\* passes both tests when no link is claimed yet becomes the link, not the date.
\* A row without a non-blank cell gives no item.
C20_OnePassIsStaged ==
    adp.kind = "auto" /\ adp.done =>
        IF StagedTitle(adp.row) = 0 THEN adp.out = <<>>
        ELSE /\ Len(adp.out) = 1
             /\ adp.out[1].title = Trim(adp.row[StagedTitle(adp.row)])
             /\ adp.out[1].link =
                   (IF StagedLink(adp.row) = 0 THEN <<>>
                    ELSE adp.row[StagedLink(adp.row)])
             /\ adp.out[1].dateObject =
                   (IF StagedDate(adp.row) = 0 THEN NullDate
                    ELSE parseDateString(adp.row[StagedDate(adp.row)]))

\* a row whose second cell passes both tests and is the link, ahead of a cell
\* that gives the date
C20_Witness ==
    /\ adp.kind = "auto" /\ adp.done
    /\ Len(adp.row) = 3
    /\ StagedTitle(adp.row) = 1
    /\ IsLinkCell(adp.row[2]) /\ IsDateCell(adp.row[2])
    /\ IsDateCell(adp.row[3])
    /\ adp.out[1].link = adp.row[2]
    /\ adp.out[1].dateObject = parseDateString(adp.row[3])
    /\ adp.out[1].dateObject # parseDateString(adp.row[2])


(* ---- C21: auto mode, the description ---------------------------------- *)
RECURSIVE CellsAt(_, _, _)
\* the cells of the row from index i on, those at the indices given left out
CellsAt(row, i, claimed) ==
    IF i > Len(row) THEN <<>>
    ELSE (IF i \in claimed THEN <<>> ELSE <<row[i]>>) \o CellsAt(row, i + 1, claimed)

RemainingCells(row) ==
    CellsAt(row, 1, {StagedTitle(row), StagedLink(row), StagedDate(row)})

\* C21: in auto mode descriptionContent is the join, with one space, of all the
\* cells of the row that are not the title, the link or the date, in their
\* order, blank cells included.
C21_DescriptionJoin ==
    adp.kind = "auto" /\ adp.done /\ adp.out # <<>> =>
        adp.out[1].descriptionContent = JoinWithSpace(RemainingCells(adp.row))


(* ---- C22: custom-field keys ------------------------------------------- *)
IsLetter(c) == c \in 1..9 \/ c > 400
IsKeyChar(c) == IsLetter(c) \/ IsDigit(c) \/ c \in {UnderscoreChar, ColonChar, MinusChar}
\* the keys of the custom fields of the items of the sheet
KeysOf(items) ==
    UNION {{items[i].customFields[j][1] : j \in DOMAIN items[i].customFields} :
              i \in DOMAIN items}

\* the headers of the sheet that are custom and whose column holds a value
CustomColumns(values) ==
    {i \in DOMAIN values[1] :
        /\ ~IsBlank(values[1][i]) /\ ~IsStandardHeader(values[1][i])
        /\ i \in DOMAIN values[2] /\ ~IsBlank(values[2][i])}

\* C22 as stated: every custom-field key has only characters of [A-Za-z0-9_:-]
\* and starts with a letter or an underscore.
C22_Original ==
    adp.kind = "manual" /\ adp.done =>
        \A key \in KeysOf(adp.out) :
            /\ key # <<>>
            /\ \A n \in DOMAIN key : IsKeyChar(key[n])
            /\ IsLetter(key[1]) \/ key[1] = UnderscoreChar

\* C22: sanitization is total and safe: every custom header whose column holds
\* a value gives a key of the length of the trimmed header; a key has only
\* characters of [A-Za-z0-9_:-] and starts with a letter, an underscore or a colon.
C22_SanitizedKey ==
    adp.kind = "manual" /\ adp.done =>
        /\ \A key \in KeysOf(adp.out) :
              /\ key # <<>>
              /\ \A n \in DOMAIN key : IsKeyChar(key[n])
              /\ IsLetter(key[1]) \/ key[1] \in {UnderscoreChar, ColonChar}
        /\ \A i \in CustomColumns(adp.values) :
              \E key \in KeysOf(adp.out) : Len(key) = Len(Trim(adp.values[1][i]))

\* the header '1a' gave the key '_a'
C22_Witness ==
    /\ adp.kind = "manual" /\ adp.done
    /\ adp.values[1] = <<<<401>>, <<11, 1>>>>
    /\ KeysOf(adp.out) = {<<UnderscoreChar, 1>>}


(* ---- C23: RSS description --------------------------------------------- *)
\* C23: the descriptionContent of an RSS item is taken from <content:encoded>
\* when that element has content, and from <description> only otherwise.
C23_EncodedPreferred ==
    adp.kind = "feed" /\ adp.doc.root = "rss" /\ adp.done =>
        \A k \in DOMAIN adp.out :
            adp.out[k].descriptionContent =
                _stripCdataWrapper(IF adp.doc.items[k].contentEncoded # <<>>
                                   THEN adp.doc.items[k].contentEncoded
                                   ELSE adp.doc.items[k].description)


(* ---- C24: no retries -------------------------------------------------- *)
InCall == pmu.pc \in {"loop", "awaiting", "returned", "threw"}
UrlFailed(i) == pmu.net[i].outcome = "fail"
ItemsOfUrl(items, url) == SelectSeq(items, LAMBDA it : it.sourceInfo.url = url)

\* C24 as stated: within one request each source URL is fetched at most once,
\* and a URL whose fetch failed is not fetched again and has no item in the result.
C24_Original ==
    InCall =>
        /\ \A j, k \in DOMAIN pmu.fetched : j # k => pmu.fetched[j] # pmu.fetched[k]
        /\ \A i \in 1..UrlsDone :
              UrlFailed(i) =>
                  /\ \A k \in DOMAIN pmu.fetched : k > i => pmu.fetched[k] # pmu.sourceUrls[i]
                  /\ ItemsOfUrl(pmu.allItems, pmu.sourceUrls[i]) = <<>>

\* C24: no retries: each entry of the URL list is fetched at most once, in list
\* order, and an entry whose fetch or parse failed adds nothing to the result.
\* (A URL the caller lists twice is fetched once per entry.)
C24_NoRetry ==
    InCall =>
        /\ pmu.fetched = SubSeq(pmu.sourceUrls, 1, Len(pmu.fetched))
        /\ Len(pmu.fetched) = (IF pmu.pc = "awaiting" THEN pmu.urlIdx ELSE UrlsDone)
        /\ pmu.pc \in {"loop", "awaiting", "threw"} =>
              pmu.allItems = ConcatUpTo(UrlBlock, UrlsDone)
        /\ pmu.pc = "returned" =>
              IsPermutation(pmu.feedData.items,
                            ConcatUpTo(UrlBlock, Len(pmu.sourceUrls)))

\* one URL listed twice: the first fetch failed, the second one gave the item
C24_Witness ==
    /\ pmu.pc = "returned"
    /\ pmu.sourceUrls = <<<<UrlLexeme(1)>>, <<UrlLexeme(1)>>>>
    /\ UrlFailed(1)
    /\ pmu.fetched = pmu.sourceUrls
    /\ Len(pmu.feedData.items) = 1


(* ---- C25: links ------------------------------------------------------- *)
\* C25: the link of every item an adapter produces (auto-mode row, manual-mode
\* row, RSS item, Atom entry) is, when set, a syntactically valid absolute URI.
C25_LinkIsValid ==
    adp.done =>
        \A i \in DOMAIN adp.out :
            adp.out[i].link # <<>> => IsValidUrl(adp.out[i].link)


(* ---- C26: the build date ---------------------------------------------- *)
\* the newest date among the items, NullDate when none has a date
NewestDate(items) ==
    IF \E k \in DOMAIN items : Dated(items[k])
    THEN LET k == CHOOSE k \in DOMAIN items :
                     /\ Dated(items[k])
                     /\ \A j \in DOMAIN items :
                           Dated(items[j]) => items[k].dateObject >= items[j].dateObject
         IN  items[k].dateObject
    ELSE NullDate

\* the chain of the claim for the feed fetched for entry i of the list
ChainDate(i, clock) ==
    LET declared == parseDateString(Trim(pmu.net[i].doc.lastBuildDate))
    IN  IF declared # NullDate THEN declared
        ELSE IF NewestDate(UrlRaw(i)) # NullDate THEN NewestDate(UrlRaw(i))
        ELSE clock

\* C26: the lastBuildDate in the metadata of a parsed feed is the build date the
\* feed declares when it has one; otherwise the newest date among its items;
\* otherwise the current time; it is never absent. The same holds for the
\* metadata returned for a request that names this one feed.
C26_BuildDateChain ==
    /\ InCall =>
          \A k \in DOMAIN pmu.allFeedMetadata :
              /\ pmu.allFeedMetadata[k].lastBuildDate # NullDate
              /\ \A i \in 1..UrlsDone :
                    UrlIncluded(i) /\ Len(pmu.sourceUrls) = 1 =>
                        pmu.allFeedMetadata[k].lastBuildDate = ChainDate(i, now)
    /\ pmu.pc = "returned" =>
          /\ pmu.feedData.metadata.lastBuildDate # NullDate
          /\ Len(pmu.sourceUrls) = 1 =>
                pmu.feedData.metadata.lastBuildDate = ChainDate(1, now)


(* ---- C27: malformed sheets -------------------------------------------- *)
AllBlank(row) == \A i \in DOMAIN row : IsBlank(row[i])

\* the row set is absent or empty, has at most the header row in manual mode,
\* or its (data) rows are all blank
Malformed ==
    \/ adp.absent
    \/ adp.values = <<>>
    \/ adp.mode = "manual" /\ Len(adp.values) < 2
    \/ adp.mode = "manual" /\ \A i \in 2..Len(adp.values) : AllBlank(adp.values[i])
    \/ adp.mode = "auto" /\ \A i \in DOMAIN adp.values : AllBlank(adp.values[i])

\* C27: malformed tabular input never raises: in manual mode a row set of
\* fewer than two rows, and in either mode an empty or absent row set or rows
\* whose cells are all blank, give no item, and buildFeedData returns its metadata.
C27_MalformedInput ==
    adp.kind = "sheet" /\ adp.done /\ Malformed =>
        /\ adp.status = "ok"
        /\ adp.out = <<>>
        /\ adp.metadata.id = SheetFeedId


(* ---- C28: the life of an item ----------------------------------------- *)
\* the item as the limit policy leaves it: the description cut, the rest as it was
Limited(raw, charLimit) ==
    [raw EXCEPT !.descriptionContent = Truncated(@, charLimit)]
SheetAdapted == UNION {Range(SheetRaw(s)) : s \in DOMAIN bfd.sheetData}
UrlAdapted == UNION {Range(UrlRaw(i)) : i \in DOMAIN pmu.sourceUrls}

\* every item past the limit policy is an item of an adapter, but for its
\* description, which is that of the adapter or its truncation
OnlyTruncated ==
    /\ bfd.pc \in {"sheets", "done"} =>
          \A it \in Range(bfd.allItems) \cup Range(bfd.feedData.items) :
              \E raw \in SheetAdapted : it = Limited(raw, bfd.charLimit)
    /\ pmu.pc \in {"loop", "awaiting", "returned", "threw"} =>
          \A it \in Range(pmu.allItems) \cup Range(pmu.feedData.items) :
              \E raw \in UrlAdapted : it = Limited(raw, pmu.charLimit)

\* the renderer of the endpoint left the items as the pipeline returned them
RenderedUntouched ==
    req.response.status = "200" =>
        rnd.feedData.items =
            (IF req.endpoint = "sheet" THEN bfd.feedData.items ELSE pmu.feedData.items)

\* a step after the limit policy (the merge, the sort, the return) changes no item
ItemsKept ==
    /\ bfd.pc \in {"sheets", "done"} => Range(bfd.allItems) \subseteq Range(bfd'.allItems)
    /\ pmu.pc \in {"loop", "awaiting", "returned", "threw"} =>
          Range(pmu.allItems) \subseteq Range(pmu'.allItems)

\* C28: from the adapter through the limit policy, the merge and the sort to the
\* renderer, the descriptionContent of an item is changed at most once, by the
\* truncation of the limit policy, and no other field of it is changed.
C28_ItemLifecycle == [](OnlyTruncated /\ RenderedUntouched) /\ [][ItemsKept]_vars

\* a response whose feed holds an item with a truncated description and the
\* renderer's input is still the list the pipeline returned
C28_Witness ==
    /\ req.response.status = "200" /\ req.endpoint = "sheet"
    /\ "atom" \in rnd.rendered
    /\ Len(rnd.feedData.items) = 2
    /\ \E k \in DOMAIN rnd.feedData.items :
          /\ Len(rnd.feedData.items[k].descriptionContent) = bfd.charLimit + 3
          /\ rnd.feedData.items[k] \notin SheetAdapted
    /\ \E k \in DOMAIN rnd.feedData.items : rnd.feedData.items[k] \in SheetAdapted


(* ---- C29: the merge keeps every item once ------------------------------ *)
SheetLimitedLists == ConcatUpTo(SheetBlock, Len(bfd.sheetData))
UrlLimitedLists == ConcatUpTo(UrlBlock, Len(pmu.sourceUrls))

\* C29: merging neither loses nor duplicates items: the list buildFeedData and
\* processMultipleUrls return is a permutation of the concatenation of the
\* per-source limited lists, whether or not the global sort runs.
C29_MergeIsPermutation ==
    /\ bfd.pc = "done" =>
          /\ Len(bfd.feedData.items) = SumUpTo(LAMBDA s : Len(SheetBlock(s)), Len(bfd.sheetData))
          /\ IsPermutation(bfd.feedData.items, SheetLimitedLists)
    /\ pmu.pc = "returned" =>
          /\ Len(pmu.feedData.items) = SumUpTo(LAMBDA i : Len(UrlBlock(i)), Len(pmu.sourceUrls))
          /\ IsPermutation(pmu.feedData.items, UrlLimitedLists)

\* a source of two items and a source of one give three, in an order the
\* global sort changed
C29_Witness ==
    /\ pmu.pc = "returned" /\ ~pmu.groupByFeed
    /\ Len(pmu.sourceUrls) = 2
    /\ Len(UrlBlock(1)) = 2 /\ Len(UrlBlock(2)) = 1
    /\ Len(pmu.feedData.items) = 3
    /\ pmu.feedData.items # UrlLimitedLists
    /\ \E it \in Range(pmu.feedData.items) : Undated(it)


(* ---- C30: the grouping flag and the skipped sort ----------------------- *)
\* the flag of the combined metadata, from what the caller asked for
GroupFlagRight ==
    pmu.pc = "returned" =>
        (pmu.feedData.metadata.groupByFeed
            <=> (pmu.groupByFeed /\ Len(pmu.sourceUrls) > 1))

\* the return of a grouped request hands out the merged list in merge order
SortSkipped ==
    pmu.pc # "returned" /\ pmu'.pc = "returned" /\ pmu.groupByFeed
        => pmu'.feedData.items = pmu.allItems

\* C30: the combined metadata's groupByFeed is true exactly when grouping was
\* requested and the caller supplied more than one source URL (requested URLs,
\* not sources that succeeded); the global sort is skipped whenever grouping was
\* requested, for a single URL too.
C30_GroupFlag == []GroupFlagRight /\ [][SortSkipped]_vars

\* grouping requested for several URLs of which a single one was merged, the
\* others having failed: the flag is set, and the list is left unsorted
C30_Witness ==
    /\ pmu.pc = "returned" /\ pmu.groupByFeed
    /\ Len(pmu.sourceUrls) > 1
    /\ Len(pmu.allFeedMetadata) = 1
    /\ \E i \in DOMAIN pmu.sourceUrls : pmu.net[i].outcome # "ok"
    /\ pmu.feedData.metadata.groupByFeed
    /\ pmu.feedData.items = UrlLimitedLists

====
